---- MODULE Spec2Model ----
(***************************************************************************)
(* A model of the aidb core (aidb-core/src): the block store, the block    *)
(* and schema caches with their dirty sets, the superblock, the schema     *)
(* chain, the data segment, the B+tree index and the statement dispatcher  *)
(* with its transaction protocol.                                          *)
(*                                                                         *)
(* A block is modelled by what its bytes decode to.  A freshly allocated   *)
(* block is all zero (ZeroBlock) and decodes as an empty structure of any  *)
(* kind; a block that was written through one of the codecs carries the    *)
(* structure that was written.  Sizes are counted in bytes as in the       *)
(* source, with BLOCK_SIZE scaled down from 8192 so that blocks fill up    *)
(* and B+tree nodes split after a handful of rows.                         *)
(***************************************************************************)
EXTENDS Integers, Sequences, FiniteSets, TLC

\* storage.rs: BLOCK_SIZE (8 * 1024 in the source, scaled down here).
BLOCK_SIZE == 50

\* btree.rs: BTREE_N, computed from BLOCK_SIZE as in the source.
BTREE_N == ((BLOCK_SIZE - 10) \div 20) - 1

\* Size of the serialized DataHeader (u64 next_data_block + u8 is_full).
DATA_HEADER_SIZE == 9

(***************************************************************************)
(* Finite maps (HashMap) as functions with a dynamic domain.               *)
(***************************************************************************)
EmptyMap == <<>>

MapPut(f, k, v) == [x \in (DOMAIN f) \cup {k} |-> IF x = k THEN v ELSE f[x]]

MapRemove(f, k) == [x \in (DOMAIN f) \ {k} |-> f[x]]

Min(S) == CHOOSE x \in S : \A y \in S : x <= y

(***************************************************************************)
(* Results of fallible operations: Ok(a, v), Err(a, msg) for an Err value  *)
(* propagated with `?`, Panic(a) for a failed unwrap().                    *)
(***************************************************************************)
Ok(a, v) == [ok |-> TRUE, panic |-> FALSE, a |-> a, v |-> v]

Err(a, msg) == [ok |-> FALSE, panic |-> FALSE, a |-> a, v |-> msg]

Panic(a) == [ok |-> FALSE, panic |-> TRUE, a |-> a, v |-> "panic"]

\* Option<T>: None is the empty sequence, Some(x) the one-element sequence.
None == <<>>

Some(x) == <<x>>

(***************************************************************************)
(* Values (data.rs: Value, DataType).                                      *)
(***************************************************************************)
Null == [t |-> "Null"]

Integer(i) == [t |-> "Integer", v |-> i]

Real(x) == [t |-> "Real", v |-> x]

Text(s) == [t |-> "Text", v |-> s]

\* #[derive(PartialEq)] on Value: same variant and same payload.
ValueEq(x, y) == x.t = y.t /\ (x.t = "Null" \/ x.v = y.v)

(***************************************************************************)
(* Blocks.                                                                 *)
(***************************************************************************)
\* storage.rs: new_volatile_block, a block of BLOCK_SIZE zero bytes.
ZeroBlock == [kind |-> "zero"]

\* superblock.rs: SuperBlock::default
DefaultSuperBlock ==
    [next_empty_block |-> 1, first_schema_block |-> 0, first_journal_block |-> 0,
     next_text_block |-> 0, next_text_offset |-> 0]

\* SuperBlock::write into a zeroed block.
SuperBlockBlock(sb) == [kind |-> "super", sb |-> sb]

\* Schema::write: block_index is #[brw(ignore)], the lengths are stored in 8 bits.
SchemaBlock(schema) ==
    [kind |-> "schema",
     next_schema_block |-> schema.next_schema_block,
     name |-> schema.name,
     columns |-> schema.columns,
     indices |-> schema.indices,
     data_block |-> schema.data_block]

\* Schema::read of a block, stamped with the index it was read from.
SchemaRead(block, index) ==
    IF block.kind = "zero"
    THEN [block_index |-> index, next_schema_block |-> 0, name |-> "",
          columns |-> <<>>, indices |-> <<>>, data_block |-> 0]
    ELSE [block_index |-> index,
          next_schema_block |-> block.next_schema_block,
          name |-> block.name,
          columns |-> block.columns,
          indices |-> block.indices,
          data_block |-> block.data_block]

\* schema.rs: Schema::row_size
RECURSIVE ColumnsSize(_)
ColumnsSize(columns) ==
    IF columns = <<>> THEN 0
    ELSE (IF Head(columns).datatype = "Text" THEN 13 ELSE 9) + ColumnsSize(Tail(columns))

row_size(schema) == 1 + ColumnsSize(schema.columns)

(***************************************************************************)
(* The core object (lib.rs: struct Aidb).  superblock_backup is an Option: *)
(* <<>> is None and <<sb>> is Some(sb).                                    *)
(***************************************************************************)
\* History kept with the core: the indices of the block buffers handed out by
\* get_block or new_block and not yet given back with put_block, and whether
\* get_block was ever called for an index that was handed out.
NoLoans == [held |-> {}, twice |-> FALSE]

NewAidb(op) ==
    [op |-> op,
     log |-> [read |-> {}, written |-> {}],
     blocks |-> EmptyMap,
     blocks_dirty |-> {},
     superblock |-> DefaultSuperBlock,
     superblock_dirty |-> FALSE,
     schemas |-> EmptyMap,
     schemas_dirty |-> {},
     transaction_in_progress |-> FALSE,
     superblock_backup |-> <<>>,
     loans |-> NoLoans]

(***************************************************************************)
(* storage.rs                                                              *)
(***************************************************************************)
\* superblock.rs: mark_superblock_dirty
mark_superblock_dirty(a) == [a EXCEPT !.superblock_dirty = TRUE]

\* A faulty new_block that hands out next_empty_block without advancing it.
new_block_not_advancing(a) ==
    [a |-> mark_superblock_dirty(
               [a EXCEPT !.loans.held = @ \cup {a.superblock.next_empty_block}]),
     index |-> a.superblock.next_empty_block,
     block |-> ZeroBlock]

\* Aidb::new_block: returns [a, index, block].
new_block(a) ==
    [a |-> mark_superblock_dirty(
               [a EXCEPT !.superblock.next_empty_block = @ + 1,
                         !.loans.held = @ \cup {a.superblock.next_empty_block}]),
     index |-> a.superblock.next_empty_block,
     block |-> ZeroBlock]

\* Vec::resize(new_len, 0)
resize(v, new_len) == [i \in 1..new_len |-> IF i <= Len(v) THEN v[i] ELSE 0]

\* read_physical, the payload of a key made into a Block: a payload kept as
\* raw bytes is resized to BLOCK_SIZE; the payloads the core wrote itself
\* are kept decoded and have the block size already.
BlockOf(payload) ==
    IF payload.kind = "raw"
    THEN [kind |-> "raw", bytes |-> resize(payload.bytes, BLOCK_SIZE)]
    ELSE payload

\* A faulty read_physical that hands out the payload as stored.
read_physical_as_stored(a, index) ==
    IF index \in DOMAIN a.op
    THEN Ok([a EXCEPT !.log.read = @ \cup {index}], a.op[index])
    ELSE Err(a, "NotFound")

\* Aidb::read_physical
read_physical(a, index) ==
    IF index \in DOMAIN a.op
    THEN Ok([a EXCEPT !.log.read = @ \cup {index}], BlockOf(a.op[index]))
    ELSE Err(a, "NotFound")

\* Aidb::write_physical
write_physical(a, index, block) ==
    [a EXCEPT !.op = MapPut(@, index, block),
              !.log.written = @ \cup {index}]

\* The loans after get_block(index), which hands out a buffer or fails.
Lent(loans, index, handed_out) ==
    [held |-> IF handed_out THEN loans.held \cup {index} ELSE loans.held,
     twice |-> loans.twice \/ index \in loans.held]

\* Aidb::get_block: the cached block is removed from the cache (a loan).
get_block(a, index) ==
    IF index \in DOMAIN a.blocks
    THEN Ok([a EXCEPT !.blocks = MapRemove(@, index),
                      !.loans = Lent(@, index, TRUE)], a.blocks[index])
    ELSE read_physical([a EXCEPT !.loans = Lent(@, index, index \in DOMAIN a.op)], index)

\* Aidb::put_block
put_block(a, index, block) ==
    [a EXCEPT !.blocks = MapPut(@, index, block), !.loans.held = @ \ {index}]

\* Aidb::mark_block_dirty
mark_block_dirty(a, index) == [a EXCEPT !.blocks_dirty = @ \cup {index}]

(***************************************************************************)
(* schema.rs.  A handler that goes on after a fallible call is written as  *)
(* a chain of operators: each takes the result of the call (g, with g.ok,  *)
(* g.a the core afterwards and g.v the value) and continues from there.    *)
(***************************************************************************)
\* Aidb::put_schema
put_schema(a, table, schema) == [a EXCEPT !.schemas = MapPut(@, table, schema)]

\* Aidb::mark_schema_dirty
mark_schema_dirty(a, table) == [a EXCEPT !.schemas_dirty = @ \cup {table}]

RECURSIVE load_schema_from(_, _, _)
\* load_schema, the schema read from block schema_block_index: found, or
\* cached under its name and the walk goes on.
load_schema_visit(a, table, schema) ==
    IF schema.name = table THEN Ok(a, schema)
    ELSE load_schema_from(put_schema(a, schema.name, schema), table,
                          schema.next_schema_block)

\* Aidb::load_schema, the walk from schema_block_index on.
load_schema_from(a, table, schema_block_index) ==
    IF schema_block_index = 0 THEN Err(a, "table not found")
    ELSE LET g == get_block(a, schema_block_index) IN
         IF ~g.ok THEN g
         ELSE load_schema_visit(put_block(g.a, schema_block_index, g.v), table,
                                SchemaRead(g.v, schema_block_index))

\* Aidb::load_schema
load_schema(a, table) == load_schema_from(a, table, a.superblock.first_schema_block)

\* Aidb::get_schema: the cached schema is removed from the cache (a loan).
get_schema(a, table) ==
    IF table \in DOMAIN a.schemas
    THEN Ok([a EXCEPT !.schemas = MapRemove(@, table)], a.schemas[table])
    ELSE load_schema(a, table)

RECURSIVE drop_table_walk(_, _, _, _)
\* drop_table, the schema found is not the first of the chain, after
\* get_schema(previous_table): the predecessor is linked to the successor
\* of the dropped schema, cached and marked dirty.
drop_table_splice(gs, previous_table, next_schema_block) ==
    IF ~gs.ok THEN Panic(gs.a)
    ELSE Ok(mark_schema_dirty(
                put_schema(gs.a, previous_table,
                           [gs.v EXCEPT !.next_schema_block = next_schema_block]),
                previous_table), 0)

\* drop_table, the schema read from the block schema.block_index, whose
\* buffer `block` was taken out of the core a.  The buffer of the dropped
\* schema is not put back.
drop_table_visit(a, block, schema, table, previous_table) ==
    IF schema.name = table
    THEN IF previous_table = ""
         THEN Ok([a EXCEPT !.superblock.first_schema_block = schema.next_schema_block,
                           !.superblock_dirty = TRUE], 0)
         ELSE drop_table_splice(get_schema(a, previous_table), previous_table,
                                schema.next_schema_block)
    ELSE drop_table_walk(
             put_schema(put_block(a, schema.block_index, block), schema.name, schema),
             table, schema.name, schema.next_schema_block)

\* drop_table, the chain walk from schema_block_index on.
drop_table_walk(a, table, previous_table, schema_block_index) ==
    IF schema_block_index = 0 THEN Err(a, "table not found")
    ELSE LET g == get_block(a, schema_block_index) IN
         IF ~g.ok THEN g
         ELSE drop_table_visit(g.a, g.v, SchemaRead(g.v, schema_block_index), table,
                               previous_table)

\* Aidb::drop_table
drop_table(a, table) == drop_table_walk(a, table, "", a.superblock.first_schema_block)

\* Aidb::save_schema
save_schema(a, schema) ==
    LET g == get_block(a, schema.block_index) IN
    IF ~g.ok THEN g
    ELSE Ok(mark_block_dirty(put_block(g.a, schema.block_index, SchemaBlock(schema)),
                             schema.block_index), "")

RECURSIVE show_tables_from(_, _, _)
\* show_tables, the schema read from a block of the chain: cached under its
\* name, its name listed, and the walk goes on.
show_tables_visit(a, schema, tables) ==
    show_tables_from(put_schema(a, schema.name, schema), schema.next_schema_block,
                     Append(tables, schema.name))

\* Aidb::show_tables, the walk from schema_block_index on.
show_tables_from(a, schema_block_index, tables) ==
    IF schema_block_index = 0 THEN Ok(a, tables)
    ELSE LET g == get_block(a, schema_block_index) IN
         IF ~g.ok THEN g
         ELSE show_tables_visit(put_block(g.a, schema_block_index, g.v),
                                SchemaRead(g.v, schema_block_index), tables)

\* Aidb::show_tables: the response rows are the table names in chain order.
show_tables(a) == show_tables_from(a, a.superblock.first_schema_block, <<>>)

\* describe, after get_schema(table)?
describe_schema(g, table) ==
    IF ~g.ok THEN g
    ELSE Ok(put_schema(g.a, table, g.v),
            [i \in 1..Len(g.v.columns) |->
                <<g.v.columns[i].name, g.v.columns[i].datatype>>])

\* Aidb::describe
describe(a, table) == describe_schema(get_schema(a, table), table)

\* new_schema_block, the schema of the new table in block `index`.
NewSchema(index, table, columns, indices) ==
    [block_index |-> index, next_schema_block |-> 0, name |-> table,
     columns |-> columns, indices |-> indices, data_block |-> 0]

\* Aidb::new_schema_block: returns [a, index].
new_schema_block(a, table, columns, indices) ==
    LET nb == new_block(a)
        schema == NewSchema(nb.index, table, columns, indices)
    IN [a |-> mark_block_dirty(
                  put_block(mark_schema_dirty(put_schema(nb.a, table, schema), table),
                            nb.index, SchemaBlock(schema)),
                  nb.index),
        index |-> nb.index]

\* create_table, first loop: the IndexInfo of every column flagged with an index.
RECURSIVE SchemaIndices(_, _)
SchemaIndices(columns, i) ==
    IF i > Len(columns) THEN <<>>
    ELSE (IF columns[i].index = "BTree"
          THEN <<[column_index |-> i - 1, type_ |-> "BTree", block |-> 0]>>
          ELSE <<>>) \o SchemaIndices(columns, i + 1)

\* create_table, second loop: the columns without their index flag.
SchemaColumns(columns) ==
    [i \in 1..Len(columns) |->
        [name |-> columns[i].name, datatype |-> columns[i].datatype]]

\* create_table, the append path: n is what new_schema_block returned; the
\* last schema of the chain is linked to the new block, cached and marked
\* dirty.  Its block, taken by get_block, is not put back.
create_table_append(n, schema) ==
    Ok(put_schema(mark_schema_dirty(n.a, schema.name), schema.name,
                  [schema EXCEPT !.next_schema_block = n.index]), 0)

RECURSIVE create_table_walk(_, _, _, _, _)
\* create_table, the schema read from block schema_block_index (g.v, taken
\* from the cache into the core g.a).
create_table_visit(g, schema, table, schema_columns, schema_indices) ==
    IF schema.name = table
    THEN Err(put_block(g.a, schema.block_index, g.v), "Table exists")
    ELSE IF schema.next_schema_block = 0
    THEN create_table_append(
             new_schema_block(g.a, table, schema_columns, schema_indices), schema)
    ELSE create_table_walk(
             put_schema(put_block(g.a, schema.block_index, g.v), schema.name, schema),
             table, schema_columns, schema_indices, schema.next_schema_block)

\* create_table, the chain walk from schema_block_index on.
create_table_walk(a, table, schema_columns, schema_indices, schema_block_index) ==
    LET g == get_block(a, schema_block_index) IN
    IF ~g.ok THEN g
    ELSE create_table_visit(g, SchemaRead(g.v, schema_block_index), table,
                            schema_columns, schema_indices)

\* create_table on an empty chain: n is what new_schema_block returned.
create_table_first(n) ==
    Ok(mark_superblock_dirty([n.a EXCEPT !.superblock.first_schema_block = n.index]), 0)

\* Aidb::create_table; columns is a sequence of [name, datatype, index].
create_table(a, table, columns) ==
    IF \E i \in 1..Len(columns) :
          /\ columns[i].index = "BTree"
          /\ columns[i].datatype # "Integer"
    THEN Err(a, "index is implemented on integer column only")
    ELSE IF a.superblock.first_schema_block = 0
    THEN create_table_first(
             new_schema_block(a, table, SchemaColumns(columns), SchemaIndices(columns, 1)))
    ELSE create_table_walk(a, table, SchemaColumns(columns), SchemaIndices(columns, 1),
                           a.superblock.first_schema_block)

(***************************************************************************)
(* btree.rs.  A root or internal block holds children (child, key); a leaf *)
(* block holds next and records (key, record).                             *)
(***************************************************************************)
NodeBlock(children) == [kind |-> "node", children |-> children]

LeafBlock(next, records) == [kind |-> "leaf", next |-> next, records |-> records]

\* BTreeRoot::read / BTreeNode::read
NodeRead(block) == IF block.kind = "zero" THEN <<>> ELSE block.children

\* BTreeLeaf::read
LeafRead(block) ==
    IF block.kind = "zero" THEN [next |-> 0, records |-> <<>>]
    ELSE [next |-> block.next, records |-> block.records]

\* A writer without the assertion on the number of entries.
WriteAssert_absent(entries) == TRUE

\* #[bw(assert(!children.is_empty() && children.len() <= BTREE_N + 1))]
WriteAssert(entries) == entries # <<>> /\ Len(entries) <= BTREE_N + 1

\* Vec::insert: e becomes the element at (1-based) position i.
InsertAt(s, i, e) == SubSeq(s, 1, i - 1) \o <<e>> \o SubSeq(s, i, Len(s))

\* Vec::split_off(len.div_ceil(2)): what the vector keeps, and what is split off.
SplitKept(s) == SubSeq(s, 1, (Len(s) + 1) \div 2)

SplitOff(s) == SubSeq(s, ((Len(s) + 1) \div 2) + 1, Len(s))

\* The positions of the children but the last whose key exceeds `key`.
ChildrenAbove(children, key) == {i \in 1..(Len(children) - 1) : key < children[i].key}

\* The descent rule: the first child but the last whose key exceeds `key`,
\* else the last child (1-based position).
ChildIndex(children, key) ==
    IF ChildrenAbove(children, key) = {} THEN Len(children)
    ELSE Min(ChildrenAbove(children, key))

\* Aidb::new_btree: the leaf block l holds the one record, the internal node
\* block n points at the leaf, the root block r points at the node.
new_btree(a, key, record) ==
    LET l == new_block(a)
        n == new_block(mark_block_dirty(
                           put_block(l.a, l.index,
                                     LeafBlock(0, <<[key |-> key, record |-> record]>>)),
                           l.index))
        r == new_block(mark_block_dirty(
                           put_block(n.a, n.index,
                                     NodeBlock(<<[child |-> l.index, key |-> 0]>>)),
                           n.index))
    IN Ok(mark_block_dirty(
              put_block(r.a, r.index, NodeBlock(<<[child |-> n.index, key |-> 0]>>)),
              r.index),
          r.index)

\* Aidb::read_root and Aidb::read_node
read_node(a, node_i) ==
    LET g == get_block(a, node_i) IN
    IF ~g.ok THEN g ELSE Ok(put_block(g.a, node_i, g.v), NodeRead(g.v))

\* Aidb::write_root and Aidb::write_node
write_node(a, node_i, children) ==
    LET g == get_block(a, node_i) IN
    IF ~g.ok THEN g
    ELSE IF ~WriteAssert(children) THEN Err(g.a, "assertion failed")
    ELSE Ok(mark_block_dirty(put_block(g.a, node_i, NodeBlock(children)), node_i), "")

\* Aidb::read_leaf
read_leaf(a, leaf_i) ==
    LET g == get_block(a, leaf_i) IN
    IF ~g.ok THEN g ELSE Ok(put_block(g.a, leaf_i, g.v), LeafRead(g.v))

\* Aidb::write_leaf
write_leaf(a, leaf_i, leaf) ==
    LET g == get_block(a, leaf_i) IN
    IF ~g.ok THEN g
    ELSE IF ~WriteAssert(leaf.records) THEN Err(g.a, "assertion failed")
    ELSE Ok(mark_block_dirty(
                put_block(g.a, leaf_i, LeafBlock(leaf.next, leaf.records)), leaf_i), "")

\* The insertion of (child, key) at position index of a children vector,
\* shared by insert_root and insert_node: the covering entry takes the new
\* key and the new child follows it with the entry's former key.
InsertChildAt(children, index, key, child) ==
    InsertAt([children EXCEPT ![index].key = key], index + 1,
             [child |-> child, key |-> children[index].key])

InsertChild(children, key, child) ==
    InsertChildAt(children, ChildIndex(children, key), key, child)

\* Aidb::insert_root
insert_root(a, root, key, child) ==
    LET r == read_node(a, root) IN
    IF ~r.ok THEN r
    ELSE IF r.v = <<>> THEN Panic(r.a)
    ELSE write_node(r.a, root, InsertChild(r.v, key, child))

\* seek_node and seek_leaf, after the read of the node?
seek_child(r, key) ==
    IF ~r.ok THEN r
    ELSE IF r.v = <<>> THEN Err(r.a, "invalid btree index")
    ELSE Ok(r.a, r.v[ChildIndex(r.v, key)].child)

\* Aidb::seek_node
seek_node(a, root, key) == seek_child(read_node(a, root), key)

\* The separator handed to the root when an internal node splits: the key
\* of the first child of the new node.
NodeSplitKey(kept, next_children) == Head(next_children).key

\* insert_node, the split, after insert_root(root, next_key, next_node_i)?
insert_node_kept(ir, node_i, kept) ==
    IF ~ir.ok THEN ir ELSE write_node(ir.a, node_i, kept)

\* insert_node, with the children after the insertion: a node over its
\* capacity is split into a new block nb.
insert_node_children(a, root, node_i, children) ==
    IF Len(children) > BTREE_N + 1
    THEN LET nb == new_block(a) IN
         IF ~WriteAssert(SplitOff(children)) THEN Err(nb.a, "assertion failed")
         ELSE insert_node_kept(
                  insert_root(mark_block_dirty(
                                  put_block(nb.a, nb.index, NodeBlock(SplitOff(children))),
                                  nb.index),
                              root,
                              NodeSplitKey(SplitKept(children), SplitOff(children)),
                              nb.index),
                  node_i, SplitKept(children))
    ELSE write_node(a, node_i, children)

\* insert_node, after seek_node(root, key)?
insert_node_at(s, root, key, child) ==
    IF ~s.ok THEN s
    ELSE LET r == read_node(s.a, s.v) IN
         IF ~r.ok THEN r
         ELSE IF r.v = <<>> THEN Panic(r.a)
         ELSE insert_node_children(r.a, root, s.v, InsertChild(r.v, key, child))

\* Aidb::insert_node
insert_node(a, root, key, child) == insert_node_at(seek_node(a, root, key), root, key, child)

\* seek_leaf, after seek_node(root, key)?
seek_leaf_node(s, key) ==
    IF ~s.ok THEN s ELSE seek_child(read_node(s.a, s.v), key)

\* Aidb::seek_leaf
seek_leaf(a, root, key) == seek_leaf_node(seek_node(a, root, key), key)

\* The positions of the records whose key exceeds `key`.
RecordsAbove(records, key) == {i \in 1..Len(records) : records[i].key > key}

\* insert_leaf: the position of the new record, before the first record
\* whose key exceeds `key`.
RecordIndex(records, key) ==
    IF RecordsAbove(records, key) = {} THEN Len(records) + 1
    ELSE Min(RecordsAbove(records, key))

\* insert_leaf, the split, after insert_node(root, next_key, next_leaf_i)?
insert_leaf_kept(n, leaf_i, next_leaf_i, kept) ==
    IF ~n.ok THEN n
    ELSE write_leaf(n.a, leaf_i, [next |-> next_leaf_i, records |-> kept])

\* insert_leaf, with the records after the insertion: a leaf over its
\* capacity is split into a new block nb.
insert_leaf_records(a, root, leaf_i, next, records) ==
    IF Len(records) > BTREE_N + 1
    THEN LET nb == new_block(a) IN
         IF ~WriteAssert(SplitOff(records)) THEN Err(nb.a, "assertion failed")
         ELSE insert_leaf_kept(
                  insert_node(mark_block_dirty(
                                  put_block(nb.a, nb.index,
                                            LeafBlock(next, SplitOff(records))),
                                  nb.index),
                              root, Head(SplitOff(records)).key, nb.index),
                  leaf_i, nb.index, SplitKept(records))
    ELSE write_leaf(a, leaf_i, [next |-> next, records |-> records])

\* insert_leaf, after seek_leaf(root, key)?
insert_leaf_at(s, root, key, record) ==
    IF ~s.ok THEN s
    ELSE LET r == read_leaf(s.a, s.v) IN
         IF ~r.ok THEN r
         ELSE insert_leaf_records(r.a, root, s.v, r.v.next,
                                  InsertAt(r.v.records, RecordIndex(r.v.records, key),
                                           [key |-> key, record |-> record]))

\* Aidb::insert_leaf
insert_leaf(a, root, key, record) ==
    insert_leaf_at(seek_leaf(a, root, key), root, key, record)

\* The positions of the records with key `key`.
RecordsWith(records, key) == {i \in 1..Len(records) : records[i].key = key}

\* select_btree, after seek_leaf(root, key)?
select_btree_at(s, key) ==
    IF ~s.ok THEN s
    ELSE LET r == read_leaf(s.a, s.v) IN
         IF ~r.ok THEN r
         ELSE Ok(r.a, IF RecordsWith(r.v.records, key) = {} THEN None
                      ELSE Some(r.v.records[Min(RecordsWith(r.v.records, key))].record))

\* Aidb::select_btree from BTreeExactState::Initialized: Some(record) or None.
select_btree(a, root, key) ==
    IF root = 0 THEN Ok(a, None) ELSE select_btree_at(seek_leaf(a, root, key), key)

\* i64::MAX and i64::MIN, scaled to the integers of the checker.
I64_MAX == 2147483647

I64_MIN == -2147483647

\* std::ops::Bound
Included(v) == [kind |-> "Included", v |-> v]

Excluded(v) == [kind |-> "Excluded", v |-> v]

Unbounded == [kind |-> "Unbounded", v |-> 0]

\* BTreeRangeState
RangeInitialized == [tag |-> "Initialized", next |-> 0, stream |-> <<>>]

RangeRunning(next, stream) == [tag |-> "Running", next |-> next, stream |-> stream]

\* select_range_btree: left_bound, computed from range.0.
left_bound(range) ==
    IF range[1].kind = "Included" THEN range[1].v
    ELSE IF range[1].kind = "Excluded" THEN range[1].v + 1
    ELSE I64_MIN

\* select_range_btree: right_bound, which the code computes from range.0 as
\* well.
right_bound(range) ==
    IF range[1].kind = "Included" THEN range[1].v
    ELSE IF range[1].kind = "Excluded" THEN range[1].v - 1
    ELSE I64_MAX

\* The positions of the stream whose key exceeds right (break 'seek_block).
StreamBreaks(stream, right) == {i \in 1..Len(stream) : stream[i].key > right}

RECURSIVE select_range_running(_, _, _, _)
\* select_range_btree in BTreeRangeState::Running: the loop over the stream
\* and the following leaves.  The records between the bounds are pushed on
\* the local vector `result`, which is dropped: the answer is Ok(None).
select_range_running(a, next, stream, right) ==
    IF StreamBreaks(stream, right) # {}
    THEN Ok(a, [record |-> None,
                state |-> RangeRunning(next, SubSeq(stream,
                                                    Min(StreamBreaks(stream, right)) + 1,
                                                    Len(stream)))])
    ELSE IF next = 0 THEN Ok(a, [record |-> None, state |-> RangeRunning(0, <<>>)])
    ELSE LET g == get_block(a, next) IN
         IF ~g.ok THEN g
         ELSE select_range_running(put_block(g.a, next, g.v), LeafRead(g.v).next,
                                   LeafRead(g.v).records, right)

\* select_range_btree in BTreeRangeState::Initialized, after
\* seek_leaf(root, left_bound)?
select_range_at(s, right) ==
    IF ~s.ok THEN s
    ELSE LET r == read_leaf(s.a, s.v) IN
         IF ~r.ok THEN r
         ELSE select_range_running(r.a, r.v.next, r.v.records, right)

\* Aidb::select_range_btree: one pull, answering the record (always None)
\* and the state of the iterator.
select_range_btree(a, root, range, state) ==
    IF root = 0 THEN Ok(a, [record |-> None, state |-> state])
    ELSE IF range[1].kind = "Excluded" /\ range[1].v \in {I64_MAX, I64_MIN}
    THEN Ok(a, [record |-> None, state |-> state])
    ELSE IF state.tag = "Initialized"
    THEN select_range_at(seek_leaf(a, root, left_bound(range)), right_bound(range))
    ELSE select_range_running(a, state.next, state.stream, right_bound(range))

\* insert_btree, after select_btree(root, key)?
insert_btree_new(s, root, key, record) ==
    IF ~s.ok THEN s
    ELSE IF s.v # None THEN Err(s.a, "unique key exists")
    ELSE insert_leaf(s.a, root, key, record)

\* Aidb::insert_btree
insert_btree(a, root, key, record) ==
    insert_btree_new(select_btree(a, root, key), root, key, record)

(***************************************************************************)
(* data.rs.  A text block holds the bytes written so far (the rest of the  *)
(* block is zero); a data block holds its header and the row slots that    *)
(* were written, keyed by their byte offset.                               *)
(***************************************************************************)
\* The bytes of a text-spill block, without the trailing zeros.
TextBytes(block) == IF block.kind = "zero" THEN <<>> ELSE block.bytes

Max(x, y) == IF x > y THEN x ELSE y

\* cursor_at(offset) followed by write_all(s), on the bytes old.
BytesWrite(old, offset, s) ==
    [i \in 1..Max(Len(old), offset + Len(s)) |->
        IF i > offset /\ i <= offset + Len(s) THEN s[i - offset]
        ELSE IF i <= Len(old) THEN old[i] ELSE 0]

TextWrite(block, offset, s) ==
    [kind |-> "text", bytes |-> BytesWrite(TextBytes(block), offset, s)]

\* cursor_at(offset) followed by read_exact of len bytes, on the bytes old.
BytesRead(old, offset, len) ==
    [i \in 1..len |-> IF offset + i <= Len(old) THEN old[offset + i] ELSE 0]

TextRead(block, offset, len) == BytesRead(TextBytes(block), offset, len)

\* DataHeader::read and the slots of a data block
DataRead(block) ==
    IF block.kind = "zero"
    THEN [next_data_block |-> 0, is_full |-> FALSE, slots |-> EmptyMap]
    ELSE [next_data_block |-> block.next_data_block, is_full |-> block.is_full,
          slots |-> block.slots]

\* The bytes of a data buffer; an untouched buffer is still the zero block.
DataBlock(b) ==
    IF b.next_data_block = 0 /\ ~b.is_full /\ DOMAIN b.slots = {}
    THEN ZeroBlock
    ELSE [kind |-> "data", next_data_block |-> b.next_data_block,
          is_full |-> b.is_full, slots |-> b.slots]

\* `as i8` of a length
I8(n) == ((n + 128) % 256) - 128

\* Aidb::is_row_valid at cursor position pos
is_row_valid(b, pos) == pos \in DOMAIN b.slots /\ b.slots[pos].len > 0

\* Aidb::read_text
read_text(a, len, ptr) ==
    IF len = 0 THEN Ok(a, <<>>)
    ELSE IF len > BLOCK_SIZE THEN Err(a, "text too long")
    ELSE LET g == get_block(a, ptr.block) IN
         IF ~g.ok THEN g
         ELSE IF ptr.offset + len > BLOCK_SIZE THEN Err(g.a, "UnexpectedEof")
         ELSE Ok(put_block(g.a, ptr.block, g.v), TextRead(g.v, ptr.offset, len))

\* insert_text, the text s written at `offset` of the block `index` held in
\* the core a.
insert_text_write(a, index, block, offset, s) ==
    Ok(mark_superblock_dirty(
           [mark_block_dirty(put_block(a, index, TextWrite(block, offset, s)), index)
               EXCEPT !.superblock.next_text_block = index,
                      !.superblock.next_text_offset = offset + Len(s)]),
       [block |-> index, offset |-> offset])

\* A faulty insert_text that goes on in the current text block whenever
\* there is one, whether the text fits in it or not.
insert_text_without_room_check(a, s) ==
    IF s = <<>> THEN Ok(a, [block |-> 0, offset |-> 0])
    ELSE IF Len(s) > BLOCK_SIZE THEN Err(a, "text too long")
    ELSE IF a.superblock.next_text_block = 0
    THEN LET nb == new_block(a) IN insert_text_write(nb.a, nb.index, nb.block, 0, s)
    ELSE LET g == get_block(a, a.superblock.next_text_block) IN
         IF ~g.ok THEN g
         ELSE insert_text_write(g.a, a.superblock.next_text_block, g.v,
                                a.superblock.next_text_offset, s)

\* Aidb::insert_text
insert_text(a, s) ==
    IF s = <<>> THEN Ok(a, [block |-> 0, offset |-> 0])
    ELSE IF Len(s) > BLOCK_SIZE THEN Err(a, "text too long")
    ELSE IF \/ a.superblock.next_text_block = 0
            \/ (BLOCK_SIZE - a.superblock.next_text_offset) < Len(s)
    THEN LET nb == new_block(a) IN insert_text_write(nb.a, nb.index, nb.block, 0, s)
    ELSE LET g == get_block(a, a.superblock.next_text_block) IN
         IF ~g.ok THEN g
         ELSE insert_text_write(g.a, a.superblock.next_text_block, g.v,
                                a.superblock.next_text_offset, s)

RECURSIVE write_values(_, _, _, _)
\* write_row: repr is the ValueRepr of column i, w the result for the
\* columns after it.
write_values_cons(w, repr) == IF ~w.ok THEN w ELSE Ok(w.a, <<repr>> \o w.v)

\* write_row, for a text value, after insert_text?
write_values_text(t, columns, row, i) ==
    IF ~t.ok THEN t
    ELSE write_values_cons(write_values(t.a, columns, row, i + 1),
                           [tag |-> "Text", len |-> Len(row[i].v), ptr |-> t.v])

\* Aidb::write_row, the values from column i on; returns the ValueRepr's.
write_values(a, columns, row, i) ==
    IF i > Len(columns) \/ i > Len(row) THEN Ok(a, <<>>)
    ELSE IF row[i].t = "Null"
    THEN write_values_cons(write_values(a, columns, row, i + 1),
                           [tag |-> columns[i].datatype \o "Null"])
    ELSE IF columns[i].datatype = "Text" /\ row[i].t = "Text"
    THEN write_values_text(insert_text(a, row[i].v), columns, row, i)
    ELSE IF columns[i].datatype = row[i].t
    THEN write_values_cons(write_values(a, columns, row, i + 1),
                           [tag |-> columns[i].datatype, v |-> row[i].v])
    ELSE Err(a, "invalid value")

\* #[bw(assert(*len == 0 || len.unsigned_abs() as usize == values.len()))]
RowAssert(len, values) == len = 0 \/ (IF len < 0 THEN -len ELSE len) = Len(values)

\* write_row, with the ValueRepr's: the RowRepr written at the cursor, its
\* len being `values.len() as i8`.
write_row_repr(w) ==
    IF ~w.ok THEN w
    ELSE IF ~RowAssert(I8(Len(w.v)), w.v) THEN Err(w.a, "assertion failed")
    ELSE Ok(w.a, [len |-> I8(Len(w.v)), values |-> w.v])

\* Aidb::write_row
write_row(a, columns, row) == write_row_repr(write_values(a, columns, row, 1))

RECURSIVE read_values(_, _, _)
\* read_row: value is the Value of position i, r the result for the
\* positions after it.
read_values_cons(r, value) == IF ~r.ok THEN r ELSE Ok(r.a, <<value>> \o r.v)

\* read_row, for a text value, after read_text?
read_values_text(t, values, i) ==
    IF ~t.ok THEN t
    ELSE read_values_cons(read_values(t.a, values, i + 1), Text(t.v))

\* Aidb::read_row, the values from position i on.
read_values(a, values, i) ==
    IF i > Len(values) THEN Ok(a, <<>>)
    ELSE IF values[i].tag \in {"IntegerNull", "RealNull", "TextNull"}
    THEN read_values_cons(read_values(a, values, i + 1), Null)
    ELSE IF values[i].tag = "Text"
    THEN read_values_text(read_text(a, values[i].len, values[i].ptr), values, i)
    ELSE read_values_cons(read_values(a, values, i + 1),
                          [t |-> values[i].tag, v |-> values[i].v])

\* read_row, with the values: Some(row).
read_row_values(r) == IF ~r.ok THEN r ELSE Ok(r.a, Some(r.v))

\* Aidb::read_row at cursor position pos of the buffer b: Some(row) or None.
read_row(a, b, pos) ==
    IF ~is_row_valid(b, pos) THEN Ok(a, None)
    ELSE read_row_values(read_values(a, b.slots[pos].values, 1))

\* The (0-based) position of the column `name` in the schema.
ColumnPosition(schema, name) ==
    Min({i \in 1..Len(schema.columns) : schema.columns[i].name = name}) - 1

\* The positions of the named columns, in the order they are named.
ColumnPositions(schema, columns) ==
    [k \in 1..Len(columns) |-> ColumnPosition(schema, columns[k])]

AllUnique(s) == \A j, k \in 1..Len(s) : j # k => s[j] # s[k]

\* insert_into: the positions of the named columns (0-based), or the error.
column_indices(schema, columns) ==
    IF columns = <<>> THEN Ok(0, [i \in 1..Len(schema.columns) |-> i - 1])
    ELSE IF \E k \in 1..Len(columns) :
               \A i \in 1..Len(schema.columns) : schema.columns[i].name # columns[k]
    THEN Err(0, "column not found")
    ELSE IF ~AllUnique(ColumnPositions(schema, columns))
    THEN Err(0, "column specified multiple times")
    ELSE Ok(0, ColumnPositions(schema, columns))

\* A faulty assembly that stores the values in the order they are given,
\* whatever columns were named.
full_row_in_order(schema, ci, row) ==
    IF Len(row) < Len(ci) THEN Err(0, "missing values")
    ELSE IF Len(row) > Len(ci) THEN Err(0, "too much values")
    ELSE Ok(0, [j \in 1..Len(schema.columns) |-> IF j <= Len(row) THEN row[j] ELSE Null])

\* insert_into: the full row assembled through zip_longest.
full_row(schema, ci, row) ==
    IF Len(row) < Len(ci) THEN Err(0, "missing values")
    ELSE IF Len(row) > Len(ci) THEN Err(0, "too much values")
    ELSE Ok(0, [j \in 1..Len(schema.columns) |->
                   IF \E k \in 1..Len(ci) : ci[k] = j - 1
                   THEN row[CHOOSE k \in 1..Len(ci) : ci[k] = j - 1]
                   ELSE Null])

\* A faulty index maintenance that writes the row without an index entry.
insert_indices_skipped(a, table, indices, k, row, record) == Ok(a, indices)

RECURSIVE insert_indices(_, _, _, _, _, _)
\* insert_into, index k had no tree, after new_btree?
insert_indices_new(n, table, indices, k, row, record) ==
    IF ~n.ok THEN n
    ELSE insert_indices(mark_schema_dirty(n.a, table), table,
                        [indices EXCEPT ![k].block = n.v], k + 1, row, record)

\* insert_into, index k has a tree, after insert_btree?
insert_indices_old(n, table, indices, k, row, record) ==
    IF ~n.ok THEN n ELSE insert_indices(n.a, table, indices, k + 1, row, record)

\* insert_into: index maintenance for one row, from index k on; returns the
\* updated indices.
insert_indices(a, table, indices, k, row, record) ==
    IF k > Len(indices) THEN Ok(a, indices)
    ELSE IF row[indices[k].column_index + 1].t = "Integer"
    THEN IF indices[k].block = 0
         THEN insert_indices_new(
                  new_btree(a, row[indices[k].column_index + 1].v, record),
                  table, indices, k, row, record)
         ELSE insert_indices_old(
                  insert_btree(a, indices[k].block,
                               row[indices[k].column_index + 1].v, record),
                  table, indices, k, row, record)
    ELSE IF row[indices[k].column_index + 1].t = "Null"
    THEN Err(a, "indexed column must be non-null")
    ELSE Err(a, "invalid value")

\* The slot loop of insert_into returns st = "done": the rows are exhausted
\* (break 'find_block); "full": the loop ran off the block; "err": r is the
\* failure.
RECURSIVE insert_slots(_, _, _, _, _, _, _, _)
\* insert_into, the slot at pos, after write_row?
insert_slots_written(w, table, schema, ci, index, b, rows, pos) ==
    IF ~w.ok THEN [st |-> "err", r |-> w]
    ELSE insert_slots(w.a, table, schema, ci, index,
                      [b EXCEPT !.slots = MapPut(@, pos, w.v)],
                      Tail(rows), pos + row_size(schema))

\* insert_into, the slot at pos, after the index maintenance for the row?
insert_slots_indexed(ix, table, schema, ci, index, b, rows, pos, row) ==
    IF ~ix.ok THEN [st |-> "err", r |-> ix]
    ELSE insert_slots_written(write_row(ix.a, schema.columns, row), table,
                              [schema EXCEPT !.indices = ix.v], ci, index, b, rows, pos)

\* insert_into, the slot at pos, with the full row fr of the next row?
insert_slots_row(a, fr, table, schema, ci, index, b, rows, pos) ==
    IF ~fr.ok THEN [st |-> "err", r |-> Err(a, fr.v)]
    ELSE insert_slots_indexed(
             insert_indices(a, table, schema.indices, 1, fr.v,
                            [block |-> index, offset |-> pos]),
             table, schema, ci, index, b, rows, pos, fr.v)

\* insert_into: the slot loop of one block from cursor position pos on.
insert_slots(a, table, schema, ci, index, b, rows, pos) ==
    IF ~((BLOCK_SIZE - pos) > row_size(schema))
    THEN [st |-> "full", a |-> a, schema |-> schema, b |-> b, rows |-> rows]
    ELSE IF is_row_valid(b, pos)
    THEN insert_slots(a, table, schema, ci, index, b, rows, pos + row_size(schema))
    ELSE IF rows = <<>>
    THEN [st |-> "done", a |-> put_block(mark_block_dirty(a, index), index, DataBlock(b)),
          schema |-> schema, b |-> b, rows |-> rows]
    ELSE insert_slots_row(a, full_row(schema, ci, Head(rows)), table, schema, ci,
                          index, b, rows, pos)

RECURSIVE find_block(_, _, _, _, _, _, _)
\* The core after put_block(index, block) and, if dirty, mark_block_dirty(index).
PutBlockDirty(a, index, block, dirty) ==
    IF dirty THEN mark_block_dirty(put_block(a, index, block), index)
    ELSE put_block(a, index, block)

\* insert_into, after the slot loop of block `index`, whose header was
\* `header`: the rows are done, or the block is marked full and the loop
\* goes on in its successor, a new block nb if it has none.
find_block_slots(s, table, ci, index, header) ==
    IF s.st = "err" THEN s.r
    ELSE IF s.st = "done" THEN Ok(put_schema(s.a, table, s.schema), 0)
    ELSE IF header.next_data_block = 0
    THEN LET nb == new_block(s.a) IN
         find_block(mark_block_dirty(
                        put_block(nb.a, index,
                                  DataBlock([s.b EXCEPT !.is_full = TRUE,
                                                        !.next_data_block = nb.index])),
                        index),
                    table, s.schema, ci, nb.index, nb.block, s.rows)
    ELSE LET g == get_block(s.a, header.next_data_block) IN
         IF ~g.ok THEN g
         ELSE find_block(PutBlockDirty(g.a, index, DataBlock([s.b EXCEPT !.is_full = TRUE]),
                                       ~header.is_full),
                         table, s.schema, ci, header.next_data_block, g.v, s.rows)

\* insert_into, with the header (and slots) read from the buffer of block `index`.
find_block_header(a, table, schema, ci, index, header, rows) ==
    find_block_slots(
        IF ~header.is_full
        THEN insert_slots(a, table, schema, ci, index, header, rows, DATA_HEADER_SIZE)
        ELSE [st |-> "full", a |-> a, schema |-> schema, b |-> header, rows |-> rows],
        table, ci, index, header)

\* insert_into: the 'find_block loop, holding the buffer of block `index`.
find_block(a, table, schema, ci, index, block, rows) ==
    find_block_header(a, table, schema, ci, index, DataRead(block), rows)

\* insert_into, after the 'find_block loop?
insert_into_rows(f, values) == IF ~f.ok THEN f ELSE Ok(f.a, Len(values))

\* insert_into, with the column positions ci?
insert_into_columns(a, ci, table, schema, index, block, values) ==
    IF ~ci.ok THEN Err(a, ci.v)
    ELSE insert_into_rows(find_block(a, table, schema, ci.v, index, block, values), values)

\* insert_into, holding the first data block `index` of the table.
insert_into_block(a, table, schema, index, block, columns, values) ==
    insert_into_columns(a, column_indices(schema, columns), table, schema, index, block,
                        values)

\* insert_into, after get_schema(table)?  A table without a data block gets
\* the new block nb.
insert_into_schema(gs, table, columns, values) ==
    IF ~gs.ok THEN gs
    ELSE IF gs.v.data_block = 0
    THEN LET nb == new_block(gs.a) IN
         insert_into_block(mark_schema_dirty(nb.a, table), table,
                           [gs.v EXCEPT !.data_block = nb.index], nb.index, nb.block,
                           columns, values)
    ELSE LET g == get_block(gs.a, gs.v.data_block) IN
         IF ~g.ok THEN g
         ELSE insert_into_block(g.a, table, gs.v, gs.v.data_block, g.v, columns, values)

\* Aidb::insert_into
insert_into(a, table, columns, values) ==
    insert_into_schema(get_schema(a, table), table, columns, values)

(***************************************************************************)
(* select.rs.  A physical plan is a record with its operator `op`; the     *)
(* plans below it are the sequence `inner` (one plan for a Box).  A pull   *)
(* answers the row, an Option, with the plan in its new state.             *)
(***************************************************************************)
\* ScanState
ScanInitialized == [tag |-> "Initialized"]

ScanRunning(block_index, next_block_index, block, offset) ==
    [tag |-> "Running", block_index |-> block_index,
     next_block_index |-> next_block_index, block |-> block, offset |-> offset]

\* CartesianProductState::default
CartesianDefault == [first_run |-> TRUE, previous_row |-> <<>>]

\* PhysicalPlan
Scan(rsize, first_block) ==
    [op |-> "Scan", row_size |-> rsize, first_block |-> first_block,
     state |-> ScanInitialized]

BTreeExact(root_block, key) ==
    [op |-> "BTreeExact", root |-> root_block, key |-> key, state |-> "Initialized"]

Projection(columns, inner) == [op |-> "Projection", columns |-> columns, inner |-> <<inner>>]

CartesianProduct(inner) ==
    [op |-> "CartesianProduct", inner |-> inner, state |-> CartesianDefault]

Selection(constraints, inner) ==
    [op |-> "Selection", constraints |-> constraints, inner |-> <<inner>>]

Limit(limit, inner) == [op |-> "Limit", limit |-> limit, inner |-> <<inner>>, state |-> 0]

\* What a pull answers: Ok(row) and the plan after it.
Pulled(a, row, plan) == Ok(a, [row |-> row, plan |-> plan])

RECURSIVE reset(_, _)
RECURSIVE reset_inner(_, _, _)
\* reset, the i-th plan below `plan` being reset to r: the plans after it
\* follow.
reset_child(r, plan, i) == reset_inner(r.a, [plan EXCEPT !.inner[i] = r.plan], i + 1)

\* reset of the plans below `plan` from the i-th on.
reset_inner(a, plan, i) ==
    IF i > Len(plan.inner) THEN [a |-> a, plan |-> plan]
    ELSE reset_child(reset(a, plan.inner[i]), plan, i)

\* PhysicalPlan::reset: a running Scan puts its block back.
reset(a, plan) ==
    IF plan.op = "Scan"
    THEN [a |-> IF plan.state.tag = "Running"
                THEN put_block(a, plan.state.block_index, plan.state.block) ELSE a,
          plan |-> [plan EXCEPT !.state = ScanInitialized]]
    ELSE IF plan.op = "BTreeExact"
    THEN [a |-> a, plan |-> [plan EXCEPT !.state = "Initialized"]]
    ELSE IF plan.op = "CartesianProduct"
    THEN reset_inner(a, [plan EXCEPT !.state = CartesianDefault], 1)
    ELSE IF plan.op = "Limit" THEN reset_inner(a, [plan EXCEPT !.state = 0], 1)
    ELSE reset_inner(a, plan, 1)

RECURSIVE scan_running(_, _)
\* execute_select, Scan in ScanState::Running, after read_row at the offset?
\* An empty slot is stepped over.
scan_running_row(r, plan) ==
    IF ~r.ok THEN r
    ELSE IF r.v = None
    THEN scan_running(r.a, [plan EXCEPT !.state.offset = @ + plan.row_size])
    ELSE Pulled(r.a, r.v, [plan EXCEPT !.state.offset = @ + plan.row_size])

\* A faulty Scan that ends with its block instead of following
\* next_data_block.
scan_running_one_block(a, plan) ==
    IF (BLOCK_SIZE - plan.state.offset) > plan.row_size
    THEN scan_running_row(read_row(a, DataRead(plan.state.block), plan.state.offset), plan)
    ELSE Pulled(put_block(a, plan.state.block_index, plan.state.block), None,
                [plan EXCEPT !.state = ScanInitialized])

\* execute_select, PhysicalPlan::Scan in ScanState::Running.
scan_running(a, plan) ==
    IF (BLOCK_SIZE - plan.state.offset) > plan.row_size
    THEN scan_running_row(read_row(a, DataRead(plan.state.block), plan.state.offset), plan)
    ELSE IF plan.state.next_block_index = 0
    THEN Pulled(put_block(a, plan.state.block_index, plan.state.block), None,
                [plan EXCEPT !.state = ScanInitialized])
    ELSE LET g == get_block(a, plan.state.next_block_index) IN
         IF ~g.ok THEN g
         ELSE scan_running(
                  put_block(g.a, plan.state.block_index, plan.state.block),
                  [plan EXCEPT !.state = ScanRunning(plan.state.next_block_index,
                                                     DataRead(g.v).next_data_block,
                                                     g.v, DATA_HEADER_SIZE)])

\* execute_select, PhysicalPlan::Scan.
scan(a, plan) ==
    IF plan.state.tag = "Running" THEN scan_running(a, plan)
    ELSE IF plan.first_block = 0 THEN Pulled(a, None, plan)
    ELSE LET g == get_block(a, plan.first_block) IN
         IF ~g.ok THEN g
         ELSE scan_running(g.a, [plan EXCEPT !.state =
                                    ScanRunning(plan.first_block,
                                                DataRead(g.v).next_data_block, g.v,
                                                DATA_HEADER_SIZE)])

\* BTreeExact, after read_row at the record of the key?  The block of the
\* row is put back.
btree_exact_row(r, plan, index, block) ==
    IF ~r.ok THEN r
    ELSE Pulled(put_block(r.a, index, block), r.v, [plan EXCEPT !.state = "Done"])

\* BTreeExact, after select_btree(root, key, state)?
btree_exact_ptr(s, plan) ==
    IF ~s.ok THEN s
    ELSE IF s.v = None
    THEN Pulled(s.a, None, IF plan.root = 0 THEN plan ELSE [plan EXCEPT !.state = "Done"])
    ELSE LET g == get_block(s.a, s.v[1].block) IN
         IF ~g.ok THEN g
         ELSE btree_exact_row(read_row(g.a, DataRead(g.v), s.v[1].offset), plan,
                              s.v[1].block, g.v)

\* execute_select, PhysicalPlan::BTreeExact; select_btree answers None in
\* BTreeExactState::Done.
btree_exact(a, plan) ==
    IF plan.root # 0 /\ plan.state = "Done" THEN Pulled(a, None, plan)
    ELSE btree_exact_ptr(select_btree(a, plan.root, plan.key), plan)

\* Does some ProjectionColumn::Column or constraint index lie outside the row?
OutOfRow(indices, row) == \E i \in indices : i >= Len(row)

\* The row a Projection makes of the row of its inner plan.
Projected(columns, row) ==
    [k \in 1..Len(columns) |->
        IF columns[k].kind = "Column" THEN row[columns[k].index + 1]
        ELSE columns[k].value]

\* execute_select, PhysicalPlan::Projection, after its inner plan was pulled?
projection(p, plan) ==
    IF ~p.ok THEN p
    ELSE IF p.v.row = None THEN Pulled(p.a, None, [plan EXCEPT !.inner[1] = p.v.plan])
    ELSE IF OutOfRow({plan.columns[k].index : k \in {j \in 1..Len(plan.columns) :
                                                  plan.columns[j].kind = "Column"}},
                     p.v.row[1])
    THEN Panic(p.a)
    ELSE Pulled(p.a, Some(Projected(plan.columns, p.v.row[1])),
                [plan EXCEPT !.inner[1] = p.v.plan])

\* Value's derived PartialEq applied by a constraint to the row.
ConstraintHolds(c, row) ==
    IF c.kind = "EqColumn" THEN ValueEq(row[c.lhs + 1], row[c.rhs + 1])
    ELSE ValueEq(row[c.index + 1], c.value)

\* The indices a constraint reads.
ConstraintIndices(c) == IF c.kind = "EqColumn" THEN {c.lhs, c.rhs} ELSE {c.index}

RECURSIVE Accepts(_, _, _)
\* constraints.iter().all(..) from the i-th constraint on: "accept", "reject",
\* or "panic" when a constraint reached indexes outside the row.
Accepts(constraints, row, i) ==
    IF i > Len(constraints) THEN "accept"
    ELSE IF OutOfRow(ConstraintIndices(constraints[i]), row) THEN "panic"
    ELSE IF ~ConstraintHolds(constraints[i], row) THEN "reject"
    ELSE Accepts(constraints, row, i + 1)

RECURSIVE execute_select(_, _)
RECURSIVE selection(_, _)
\* execute_select, PhysicalPlan::Selection, after its inner plan was pulled?
\* A rejected row is followed by the next pull.
selection(p, plan) ==
    IF ~p.ok THEN p
    ELSE IF p.v.row = None THEN Pulled(p.a, None, [plan EXCEPT !.inner[1] = p.v.plan])
    ELSE IF Accepts(plan.constraints, p.v.row[1], 1) = "panic" THEN Panic(p.a)
    ELSE IF Accepts(plan.constraints, p.v.row[1], 1) = "accept"
    THEN Pulled(p.a, p.v.row, [plan EXCEPT !.inner[1] = p.v.plan])
    ELSE selection(execute_select(p.a, p.v.plan), plan)

\* execute_select, PhysicalPlan::Limit, after its inner plan was pulled?
limit_inner(p, plan) ==
    IF ~p.ok THEN p ELSE Pulled(p.a, p.v.row, [plan EXCEPT !.inner[1] = p.v.plan])

\* previous_row.iter().flatten()
RECURSIVE Flatten(_)
Flatten(rows) == IF rows = <<>> THEN <<>> ELSE Head(rows) \o Flatten(Tail(rows))

RECURSIVE cartesian_first(_, _, _)
\* CartesianProduct, first run, after the i-th plan was pulled?
cartesian_first_pulled(p, plan, i) ==
    IF ~p.ok THEN p
    ELSE IF p.v.row = None THEN Pulled(p.a, None, [plan EXCEPT !.inner[i] = p.v.plan])
    ELSE cartesian_first(p.a, [plan EXCEPT !.inner[i] = p.v.plan,
                                           !.state.previous_row = Append(@, p.v.row[1])],
                         i + 1)

\* CartesianProduct, first run: every plan is pulled once, from the i-th on.
cartesian_first(a, plan, i) ==
    IF i > Len(plan.inner)
    THEN Pulled(a, Some(Flatten(plan.state.previous_row)), plan)
    ELSE cartesian_first_pulled(execute_select(a, plan.inner[i]), plan, i)

RECURSIVE cartesian_next(_, _, _)
\* CartesianProduct, later runs, inner[index] exhausted and reset to r: the
\* plan after it is pulled, or the product is done.
cartesian_next_reset(r, plan, i) ==
    IF i + 1 > Len(plan.inner) THEN Pulled(r.a, None, [plan EXCEPT !.inner[i] = r.plan])
    ELSE cartesian_next(r.a, [plan EXCEPT !.inner[i] = r.plan], i + 1)

\* CartesianProduct, later runs, after inner[index] was pulled?  An exhausted
\* plan is reset and the plan after it is pulled; previous_row keeps the
\* row of the exhausted plan.
cartesian_next_pulled(p, plan, i) ==
    IF ~p.ok THEN p
    ELSE IF p.v.row = None THEN cartesian_next_reset(reset(p.a, p.v.plan), plan, i)
    ELSE IF i > Len(plan.state.previous_row) THEN Panic(p.a)
    ELSE Pulled(p.a,
                Some(Flatten([plan.state.previous_row EXCEPT ![i] = p.v.row[1]])),
                [plan EXCEPT !.inner[i] = p.v.plan,
                             !.state.previous_row[i] = p.v.row[1]])

\* CartesianProduct, later runs: the loop from inner[index] on.
cartesian_next(a, plan, i) ==
    cartesian_next_pulled(execute_select(a, plan.inner[i]), plan, i)

\* A faulty CartesianProduct whose empty product yields no row.
cartesian_product_without_row(a, plan) ==
    IF plan.inner = <<>>
    THEN Pulled(a, None, [plan EXCEPT !.state.first_run = FALSE])
    ELSE IF plan.state.first_run
    THEN cartesian_first(a, [plan EXCEPT !.state.first_run = FALSE], 1)
    ELSE cartesian_next(a, plan, 1)

\* execute_select, PhysicalPlan::CartesianProduct.
cartesian_product(a, plan) ==
    IF plan.inner = <<>>
    THEN Pulled(a, IF plan.state.first_run THEN Some(<<>>) ELSE None,
                [plan EXCEPT !.state.first_run = FALSE])
    ELSE IF plan.state.first_run
    THEN cartesian_first(a, [plan EXCEPT !.state.first_run = FALSE], 1)
    ELSE cartesian_next(a, plan, 1)

\* Aidb::execute_select: one pull of the plan.
execute_select(a, plan) ==
    CASE plan.op = "Scan" -> scan(a, plan)
      [] plan.op = "BTreeExact" -> btree_exact(a, plan)
      [] plan.op = "Projection" -> projection(execute_select(a, plan.inner[1]), plan)
      [] plan.op = "CartesianProduct" -> cartesian_product(a, plan)
      [] plan.op = "Selection" -> selection(execute_select(a, plan.inner[1]), plan)
      [] plan.op = "Limit" ->
            IF plan.state < plan.limit
            THEN limit_inner(execute_select(a, plan.inner[1]),
                             [plan EXCEPT !.state = @ + 1])
            ELSE Pulled(a, None, plan)

\* SqlCol: Full{table, column}, or Short(column) with the table left empty.
Full(table, column) == [table |-> table, column |-> column]

Short(column) == [table |-> "", column |-> column]

\* SqlSelectTarget
TargetColumn(col) == [kind |-> "Column", col |-> col]

Wildcard == [kind |-> "Wildcard"]

TargetConst(value) == [kind |-> "Const", value |-> value]

TargetVariable(name) == [kind |-> "Variable", name |-> name]

\* SqlColOrExpr and SqlRel::Eq.  A WHERE clause is the sequence of the
\* relations its SqlWhere::And nodes join, from left to right; <<>> is None.
ExprColumn(col) == [kind |-> "Column", col |-> col]

ExprConst(value) == [kind |-> "Const", value |-> value]

Eq(lhs, rhs) == [kind |-> "Eq", lhs |-> lhs, rhs |-> rhs]

\* QueryColumn
QueryColumn(table, column) == [kind |-> "Column", table |-> table, column |-> column]

QueryConst(value) == [kind |-> "Const", value |-> value]

\* build_logical_plan: the value SELECT gives a variable.
VariableValue(name) ==
    IF name = "@@version_comment" THEN Text(<<97, 105, 100, 98>>) ELSE Null

\* reify_column: the columns named `column` of the borrowed schemas (of the
\* schema of `table` when it is given), as <<table, position>>.
Matched(schemas, table, column) ==
    {tc \in UNION {{<<t, i>> : i \in 1..Len(schemas[t].columns)} : t \in DOMAIN schemas} :
        /\ schemas[tc[1]].columns[tc[2]].name = column
        /\ table # "" => tc[1] = table}

\* build_logical_plan, reify_column: (table, column, datatype) or the error.
reify_column(schemas, col) ==
    LET m == Matched(schemas, col.table, col.column)
        first == CHOOSE tc \in m : \A other \in m : tc[2] <= other[2]
    IN IF col.table # "" /\ col.table \notin DOMAIN schemas
       THEN Err(0, "table not specified")
       ELSE IF m = {} THEN Err(0, "column not found")
       ELSE IF col.table = "" /\ Cardinality(m) > 1 THEN Err(0, "ambiguous column")
       ELSE Ok(0, [table |-> first[1], column |-> col.column,
                   datatype |-> schemas[first[1]].columns[first[2]].datatype])

\* build_logical_plan, the loop over the SELECT targets from the i-th on:
\* the QueryColumns, or the first error.
RECURSIVE reify_targets(_, _, _, _)
reify_targets(schemas, from_table, targets, i) ==
    IF i > Len(targets) THEN Ok(0, <<>>)
    ELSE LET t == targets[i]
             c == reify_column(schemas, t.col)
             rest == reify_targets(schemas, from_table, targets, i + 1)
             here == IF t.kind = "Wildcard"
                     THEN [k \in 1..Len(schemas[from_table].columns) |->
                              QueryColumn(from_table, schemas[from_table].columns[k].name)]
                     ELSE IF t.kind = "Const" THEN <<QueryConst(t.value)>>
                     ELSE IF t.kind = "Variable" THEN <<QueryConst(VariableValue(t.name))>>
                     ELSE <<QueryColumn(c.v.table, t.col.column)>>
         IN IF t.kind = "Column" /\ ~c.ok THEN c
            ELSE IF ~rest.ok THEN rest
            ELSE Ok(0, here \o rest.v)

\* build_logical_plan, the ON relation of a join and reify_where of one
\* relation: its QueryConstraints, the error, or the panic of todo!().  A
\* NULL constant has no datatype to compare.
reify_rel(schemas, rel) ==
    LET l == reify_column(schemas, rel.lhs.col)
        r == reify_column(schemas, rel.rhs.col)
    IN IF rel.kind # "Eq" THEN Panic(0)
       ELSE IF rel.lhs.kind = "Column" /\ rel.rhs.kind = "Column"
       THEN IF ~l.ok THEN l
            ELSE IF ~r.ok THEN r
            ELSE IF l.v.datatype # r.v.datatype THEN Err(0, "datatype mismatch")
            ELSE Ok(0, <<[kind |-> "EqColumn",
                          table_lhs |-> l.v.table, column_lhs |-> l.v.column,
                          table_rhs |-> r.v.table, column_rhs |-> r.v.column]>>)
       ELSE IF rel.lhs.kind = "Column"
       THEN IF ~l.ok THEN l
            ELSE IF rel.rhs.value.t # "Null" /\ l.v.datatype # rel.rhs.value.t
            THEN Err(0, "datatype mismatch")
            ELSE Ok(0, <<[kind |-> "EqConst", table |-> l.v.table,
                          column |-> l.v.column, value |-> rel.rhs.value]>>)
       ELSE IF rel.rhs.kind = "Column"
       THEN IF ~r.ok THEN r
            ELSE IF rel.lhs.value.t # "Null" /\ r.v.datatype # rel.lhs.value.t
            THEN Err(0, "datatype mismatch")
            ELSE Ok(0, <<[kind |-> "EqConst", table |-> r.v.table,
                          column |-> r.v.column, value |-> rel.lhs.value]>>)
       ELSE IF ValueEq(rel.lhs.value, rel.rhs.value) THEN Ok(0, <<>>)
       ELSE Err(0, "where clause is always false")

\* build_logical_plan, the loop over the joins and reify_where over the
\* relations, from the i-th on: the constraints, or the first error.
RECURSIVE reify_rels(_, _, _)
reify_rels(schemas, rels, i) ==
    IF i > Len(rels) THEN Ok(0, <<>>)
    ELSE LET r == reify_rel(schemas, rels[i])
             rest == reify_rels(schemas, rels, i + 1)
         IN IF ~r.ok THEN r ELSE IF ~rest.ok THEN rest ELSE Ok(0, r.v \o rest.v)

\* LogicalQueryPlan
LogicalQueryPlan(tables, columns, constraints, limit) ==
    [tables |-> tables, columns |-> columns, constraints |-> constraints,
     limit |-> limit]

RECURSIVE put_schemas(_, _, _, _)
\* build_logical_plan, the last loop: the borrowed schemas are put back,
\* from the one of the i-th table on.
put_schemas(a, tables, schemas, i) ==
    IF i > Len(tables) THEN a
    ELSE put_schemas(put_schema(a, tables[i], schemas[tables[i]]), tables, schemas, i + 1)

\* build_logical_plan, with the schemas of the tables borrowed: the targets,
\* the joins and the WHERE clause are reified in this order; an error leaves
\* the borrowed schemas out of the cache.
logical_reified(a, stmt, tables, schemas, columns, constraints) ==
    IF ~columns.ok THEN [columns EXCEPT !.a = a]
    ELSE IF ~constraints.ok THEN [constraints EXCEPT !.a = a]
    ELSE Ok(put_schemas(a, tables, schemas, 1),
            LogicalQueryPlan(tables, columns.v, constraints.v, stmt.limit))

\* The tables of the statement: the FROM table and the joined ones.
StmtTables(stmt) ==
    <<stmt.table>> \o [k \in 1..Len(stmt.join_on) |-> stmt.join_on[k].table]

\* The relations of the statement: the ON of every join, then the WHERE.
StmtRels(stmt) ==
    [k \in 1..Len(stmt.join_on) |->
        Eq(ExprColumn(stmt.join_on[k].on.lhs), ExprColumn(stmt.join_on[k].on.rhs))]
    \o stmt.where_

RECURSIVE logical_tables(_, _, _, _)
\* build_logical_plan, the loop borrowing the schemas, after
\* get_schema(tables[i])?
logical_tables_got(g, stmt, i, schemas) ==
    IF ~g.ok THEN g
    ELSE logical_tables(g.a, stmt, i + 1, MapPut(schemas, StmtTables(stmt)[i], g.v))

\* build_logical_plan, the loop borrowing the schemas from the i-th table on.
logical_tables(a, stmt, i, schemas) ==
    IF i > Len(StmtTables(stmt))
    THEN logical_reified(a, stmt, StmtTables(stmt), schemas,
                         reify_targets(schemas, stmt.table, stmt.columns, 1),
                         reify_rels(schemas, StmtRels(stmt), 1))
    ELSE IF StmtTables(stmt)[i] \in DOMAIN schemas THEN Err(a, "duplicate table")
    ELSE logical_tables_got(get_schema(a, StmtTables(stmt)[i]), stmt, i, schemas)

\* Aidb::build_logical_plan
build_logical_plan(a, stmt) ==
    IF \A k \in 1..Len(stmt.columns) : stmt.columns[k].kind \in {"Const", "Variable"}
    THEN IF stmt.join_on # <<>> \/ stmt.where_ # <<>> THEN Err(a, "table required")
         ELSE Ok(a, LogicalQueryPlan(<<>>, reify_targets(EmptyMap, "", stmt.columns, 1).v,
                                     <<>>, stmt.limit))
    ELSE IF stmt.table = "" THEN Err(a, "table required")
    ELSE logical_tables(a, stmt, 1, EmptyMap)

\* build_physical_plan, first loop: the columns of a table with the index
\* attached to each, an Option.
TableColumns(table, schema) ==
    [i \in 1..Len(schema.columns) |->
        [table |-> table, column |-> schema.columns[i].name,
         index |-> IF \E k \in 1..Len(schema.indices) :
                         schema.indices[k].column_index = i - 1
                   THEN Some(schema.indices[
                            Min({k \in 1..Len(schema.indices) :
                                    schema.indices[k].column_index = i - 1})])
                   ELSE None]]

\* build_physical_plan, find_column_index and find_column_index_info: the
\* first position (from 1) of the column of the table.
find_column(columns, table, column) ==
    Min({i \in 1..Len(columns) : columns[i].table = table /\ columns[i].column = column})

RECURSIVE access_constraints(_, _, _, _)
\* build_physical_plan, the loop over the constraints left, run for one table
\* from the j-th constraint on with what was gathered: every EqConst on an
\* indexed column, of whichever table, is consumed into a BTreeExact.
access_constraints(columns, constraints, j, got) ==
    IF j > Len(constraints) THEN Ok(0, got)
    ELSE IF /\ constraints[j].kind = "EqConst"
            /\ columns[find_column(columns, constraints[j].table,
                                   constraints[j].column)].index # None
    THEN IF constraints[j].value.t = "Null"
         THEN Err(0, "indexed column must not be NULL")
         ELSE IF constraints[j].value.t # "Integer" THEN Err(0, "datatype mismatch")
         ELSE access_constraints(
                  columns, constraints, j + 1,
                  [got EXCEPT !.indexed = TRUE,
                              !.plans = Append(@, BTreeExact(
                                  columns[find_column(columns, constraints[j].table,
                                                      constraints[j].column)].index[1].block,
                                  constraints[j].value.v))])
    ELSE access_constraints(columns, constraints, j + 1,
                            [got EXCEPT !.remaining = Append(@, constraints[j])])

RECURSIVE access_plans(_, _, _, _, _)
\* build_physical_plan, the loop over the tables, after the constraints were
\* walked for the i-th table?  A table gets a Scan when nothing was
\* consumed during its turn.
access_plans_table(r, acc, tables, i) ==
    IF ~r.ok THEN r
    ELSE access_plans(acc, tables, i + 1, r.v.remaining,
                      IF r.v.indexed THEN r.v.plans
                      ELSE Append(r.v.plans, Scan(acc.row_sizes[tables[i]],
                                                  acc.first_blocks[tables[i]])))

\* build_physical_plan, the loop over the tables from the i-th on: the
\* access plans and the constraints left.
access_plans(acc, tables, i, constraints, plans) ==
    IF i > Len(tables) THEN Ok(0, [plans |-> plans, constraints |-> constraints])
    ELSE access_plans_table(
             access_constraints(acc.columns, constraints, 1,
                                [indexed |-> FALSE, plans |-> plans, remaining |-> <<>>]),
             acc, tables, i)

\* SelectionConstraint of a QueryConstraint.
SelectionConstraint(columns, c) ==
    IF c.kind = "EqColumn"
    THEN [kind |-> "EqColumn",
          lhs |-> find_column(columns, c.table_lhs, c.column_lhs) - 1,
          rhs |-> find_column(columns, c.table_rhs, c.column_rhs) - 1]
    ELSE [kind |-> "EqConst", index |-> find_column(columns, c.table, c.column) - 1,
          value |-> c.value]

\* ProjectionColumn of a QueryColumn.
ProjectionColumn(columns, c) ==
    IF c.kind = "Column"
    THEN [kind |-> "Column", index |-> find_column(columns, c.table, c.column) - 1]
    ELSE [kind |-> "Const", value |-> c.value]

\* build_physical_plan, the plan over the access plans: their product
\* unless there is one, the Selection of the constraints left, the
\* Projection, and the Limit.
PlanOver(columns, logical, plans, constraints) ==
    LET product == IF Len(plans) = 1 THEN plans[1] ELSE CartesianProduct(plans)
        selected == IF constraints = <<>> THEN product
                    ELSE Selection([k \in 1..Len(constraints) |->
                                       SelectionConstraint(columns, constraints[k])],
                                   product)
        projected == Projection([k \in 1..Len(logical.columns) |->
                                    ProjectionColumn(columns, logical.columns[k])],
                                selected)
    IN IF logical.limit = None THEN projected ELSE Limit(logical.limit[1], projected)

\* build_physical_plan, after the loops over the tables.
physical_access(a, acc, logical, r) ==
    IF ~r.ok THEN [r EXCEPT !.a = a]
    ELSE Ok(a, PlanOver(acc.columns, logical, r.v.plans, r.v.constraints))

RECURSIVE physical_tables(_, _, _, _)
\* build_physical_plan, first loop, after get_schema(tables[i])?  The schema
\* is put back at once.
physical_tables_got(g, logical, i, acc) ==
    IF ~g.ok THEN g
    ELSE physical_tables(
             put_schema(g.a, logical.tables[i], g.v), logical, i + 1,
             [columns |-> acc.columns \o TableColumns(logical.tables[i], g.v),
              row_sizes |-> MapPut(acc.row_sizes, logical.tables[i], row_size(g.v)),
              first_blocks |-> MapPut(acc.first_blocks, logical.tables[i],
                                      g.v.data_block)])

\* build_physical_plan, first loop from the i-th table on.
physical_tables(a, logical, i, acc) ==
    IF i > Len(logical.tables)
    THEN physical_access(a, acc, logical,
                         access_plans(acc, logical.tables, 1, logical.constraints, <<>>))
    ELSE physical_tables_got(get_schema(a, logical.tables[i]), logical, i, acc)

\* Aidb::build_physical_plan
build_physical_plan(a, logical) ==
    physical_tables(a, logical, 1,
                    [columns |-> <<>>, row_sizes |-> EmptyMap, first_blocks |-> EmptyMap])

\* Display for Value, as the pieces of the text.
ValueString(value) ==
    IF value.t = "Null" THEN <<"NULL">>
    ELSE IF value.t = "Text" THEN [k \in 1..Len(value.v) |-> ToString(value.v[k])]
    ELSE <<ToString(value.v)>>

\* join of the pieces of several texts with a separator.
RECURSIVE Join(_, _)
Join(texts, separator) ==
    IF texts = <<>> THEN <<>>
    ELSE IF Len(texts) = 1 THEN texts[1]
    ELSE texts[1] \o <<separator>> \o Join(Tail(texts), separator)

\* Display for PhysicalPlan, as the pieces of the text; the signs of the
\* operators are spelled in letters (Pi, sigma, empty, x, and).
RECURSIVE PlanString(_)
PlanString(plan) ==
    CASE plan.op = "Scan" -> <<"@", ToString(plan.first_block)>>
      [] plan.op = "BTreeExact" ->
            <<"btree@", ToString(plan.root), " = ", ToString(plan.key)>>
      [] plan.op = "Projection" ->
            <<"Pi{">>
            \o Join([k \in 1..Len(plan.columns) |->
                        IF plan.columns[k].kind = "Column"
                        THEN <<"$", ToString(plan.columns[k].index)>>
                        ELSE ValueString(plan.columns[k].value)], ", ")
            \o <<"} (">> \o PlanString(plan.inner[1]) \o <<")">>
      [] plan.op = "CartesianProduct" ->
            IF plan.inner = <<>> THEN <<"empty">>
            ELSE Join([k \in 1..Len(plan.inner) |->
                          <<"(">> \o PlanString(plan.inner[k]) \o <<")">>], " x ")
      [] plan.op = "Selection" ->
            <<"sigma{">>
            \o Join([k \in 1..Len(plan.constraints) |->
                        IF plan.constraints[k].kind = "EqColumn"
                        THEN <<"$", ToString(plan.constraints[k].lhs), " = ", "$",
                               ToString(plan.constraints[k].rhs)>>
                        ELSE <<"$", ToString(plan.constraints[k].index), " = ">>
                             \o ValueString(plan.constraints[k].value)], " and ")
            \o <<"} (">> \o PlanString(plan.inner[1]) \o <<")">>
      [] plan.op = "Limit" ->
            <<"limit{", ToString(plan.limit), "} (">> \o PlanString(plan.inner[1])
            \o <<")">>

\* select and explain, after build_logical_plan?
plan_logical(l) == IF ~l.ok THEN l ELSE build_physical_plan(l.a, l.v)

RECURSIVE select_pulled(_, _)
\* select, the loop over execute_select with the rows pushed so far, after
\* a pull?  None ends it, and the plan is reset.
select_pulled(p, rows) ==
    IF ~p.ok THEN p
    ELSE IF p.v.row = None THEN Ok(reset(p.a, p.v.plan).a, rows)
    ELSE select_pulled(execute_select(p.a, p.v.plan), Append(rows, p.v.row[1]))

\* select, after build_physical_plan?
select_planned(p) ==
    IF ~p.ok THEN p ELSE select_pulled(execute_select(p.a, p.v), <<>>)

\* Aidb::select
select(a, stmt) == select_planned(plan_logical(build_logical_plan(a, stmt)))

\* explain, after build_physical_plan?
explain_planned(p) ==
    IF ~p.ok THEN p ELSE Ok(p.a, <<<<Text(PlanString(p.v))>>>>)

\* A faulty EXPLAIN that plans the statement without its WHERE clause.
explain_without_where(a, stmt) ==
    explain_planned(plan_logical(build_logical_plan(a, [stmt EXCEPT !.where_ = <<>>])))

\* Aidb::explain
explain(a, stmt) == explain_planned(plan_logical(build_logical_plan(a, stmt)))

(***************************************************************************)
(* storage.rs: submit.  The dirty sets are HashSets, their iteration order *)
(* is unspecified; the model iterates in the order of Pick.                *)
(***************************************************************************)
Pick(S) == CHOOSE x \in S : TRUE

RECURSIVE submit_schemas(_, _)
\* submit, the dirty schema `table`, after save_schema?
submit_schemas_saved(sv, schema, table, dirty) ==
    IF ~sv.ok THEN sv
    ELSE submit_schemas(put_schema(sv.a, table, schema), dirty \ {table})

\* submit, the dirty schema `table`, after get_schema(table).unwrap()?
submit_schemas_got(g, table, dirty) ==
    IF ~g.ok THEN Panic(g.a)
    ELSE submit_schemas_saved(save_schema(g.a, g.v), g.v, table, dirty)

\* submit, the loop over the dirty schemas.
submit_schemas(a, dirty) ==
    IF dirty = {} THEN Ok(a, "")
    ELSE submit_schemas_got(get_schema(a, Pick(dirty)), Pick(dirty), dirty)

RECURSIVE submit_blocks(_, _)
\* submit, the loop over the dirty blocks: get_block(index).unwrap(), then
\* write_physical and put_block.
submit_blocks(a, dirty) ==
    IF dirty = {} THEN Ok(a, "")
    ELSE LET g == get_block(a, Pick(dirty)) IN
         IF ~g.ok THEN Panic(g.a)
         ELSE submit_blocks(put_block(write_physical(g.a, Pick(dirty), g.v),
                                      Pick(dirty), g.v),
                            dirty \ {Pick(dirty)})

\* submit, after the loop over the dirty schemas?
submit_saved(s) ==
    IF ~s.ok THEN s ELSE submit_blocks([s.a EXCEPT !.blocks_dirty = {}], s.a.blocks_dirty)

\* Aidb::submit: the superblock goes into block 0, then the dirty schemas
\* are saved, then the dirty blocks are written.
submit(a) ==
    LET a1 == IF a.superblock_dirty
              THEN [mark_block_dirty(put_block(a, 0, SuperBlockBlock(a.superblock)), 0)
                       EXCEPT !.superblock_dirty = FALSE]
              ELSE a
    IN submit_saved(submit_schemas([a1 EXCEPT !.schemas_dirty = {}], a1.schemas_dirty))

\* Aidb::new_memory: the core over an empty store.
new_memory == submit([NewAidb(EmptyMap) EXCEPT !.superblock_dirty = TRUE]).a

\* superblock.rs: load_superblock
load_superblock(a) ==
    LET r == read_physical(a, 0) IN
    IF r.ok THEN Ok([r.a EXCEPT !.superblock = r.v.sb], "")
    ELSE Ok(mark_superblock_dirty(r.a), "")

\* Aidb::from_op: a fresh core over an existing store.
from_op(op) == submit(load_superblock(NewAidb(op)).a)

(***************************************************************************)
(* query.rs: dispatch, and lib.rs: query.                                  *)
(***************************************************************************)
\* A faulty ROLLBACK that keeps the block cache and the dirty-block set.
dispatch_rollback_keeping_blocks(a) ==
    IF ~a.transaction_in_progress THEN Ok(a, 0)
    ELSE Ok([a EXCEPT !.schemas = EmptyMap,
                      !.schemas_dirty = {},
                      !.superblock = a.superblock_backup[1],
                      !.superblock_backup = None,
                      !.superblock_dirty = FALSE,
                      !.transaction_in_progress = FALSE], 0)

\* dispatch, SqlStmt::Rollback
dispatch_rollback(a) ==
    IF ~a.transaction_in_progress THEN Ok(a, 0)
    ELSE Ok([a EXCEPT !.schemas = EmptyMap,
                      !.schemas_dirty = {},
                      !.blocks = EmptyMap,
                      !.blocks_dirty = {},
                      !.superblock = a.superblock_backup[1],
                      !.superblock_backup = None,
                      !.superblock_dirty = FALSE,
                      !.transaction_in_progress = FALSE], 0)

\* dispatch, SqlStmt::FlushTables
dispatch_flush_tables(a) ==
    IF a.transaction_in_progress THEN Ok(a, 0)
    ELSE Ok([a EXCEPT !.schemas = EmptyMap, !.blocks = EmptyMap], 0)

\* dispatch, SqlStmt::StartTransaction
dispatch_start_transaction(a) ==
    IF a.transaction_in_progress THEN Ok(a, 0)
    ELSE Ok([a EXCEPT !.transaction_in_progress = TRUE], 0)

\* A faulty COMMIT that leaves the transaction open.
dispatch_commit_staying(a) == Ok(a, 0)

\* dispatch, SqlStmt::Commit
dispatch_commit(a) ==
    IF ~a.transaction_in_progress THEN Ok(a, 0)
    ELSE Ok([a EXCEPT !.transaction_in_progress = FALSE], 0)

\* Aidb::dispatch
dispatch(a, stmt) ==
    CASE stmt.type = "ShowTables" -> show_tables(a)
      [] stmt.type = "Describe" -> describe(a, stmt.table)
      [] stmt.type = "CreateTable" -> create_table(a, stmt.table, stmt.columns)
      [] stmt.type = "InsertInto" -> insert_into(a, stmt.table, stmt.columns, stmt.values)
      [] stmt.type = "Select" -> select(a, stmt)
      [] stmt.type = "Explain" -> explain(a, stmt)
      [] stmt.type = "FlushTables" -> dispatch_flush_tables(a)
      [] stmt.type = "StartTransaction" -> dispatch_start_transaction(a)
      [] stmt.type = "Commit" -> dispatch_commit(a)
      [] stmt.type = "Rollback" -> dispatch_rollback(a)

\* A faulty query that submits after every successful statement.
SubmitAlways(a) == TRUE

\* query: whether a successful statement is followed by submit().
SubmitAfter(a) == ~a.transaction_in_progress

\* A faulty query that hands the state to the rollback as the statement left it.
FailedStateAsLeft(a) == a

\* query: the state handed to the rollback that follows a failed statement.
FailedState(a) == [a EXCEPT !.transaction_in_progress = TRUE]

\* query, after the submit() that follows a successful statement with value v?
query_submitted(s, v) == IF s.ok THEN Ok(s.a, v) ELSE s

\* query, after dispatch?
query_dispatched(r) ==
    IF r.panic THEN r
    ELSE IF r.ok
    THEN IF SubmitAfter(r.a) THEN query_submitted(submit(r.a), r.v) ELSE r
    ELSE Err(dispatch_rollback(FailedState(r.a)).a, r.v)

\* Aidb::query
query(a, stmt) ==
    query_dispatched(dispatch([a EXCEPT !.superblock_backup = Some(a.superblock)], stmt))

(***************************************************************************)
(* The state machine: one core, driven one statement at a time through     *)
(* query().                                                                *)
(***************************************************************************)
VARIABLES
    op,                       \* the blob store: block index -> block
    log,                      \* BlockIoLog
    blocks,                   \* the block cache
    blocks_dirty,
    superblock,
    superblock_dirty,
    schemas,                  \* the schema cache
    schemas_dirty,
    transaction_in_progress,
    superblock_backup,
    panicked,                 \* an unwrap() failed: the core is gone
    last,                     \* history: the last operation and its outcome
    txn0,                     \* history: the core when the transaction began
    txn_log,                  \* history: tables created / rows inserted since then
    steps,                    \* history: number of statements issued
    root,                     \* SpecBTree: the root block of the tree under test
    inserted,                 \* SpecBTree: history, key -> record inserted
    stored,                   \* SpecSelect: history, table -> rows inserted
    loans,                    \* history: buffers handed out (dropped when the
                              \* operation returns), whether one was handed out twice
    archive                   \* SpecArchive: the bytes save() wrote, <<>> before

vars == <<op, log, blocks, blocks_dirty, superblock, superblock_dirty, schemas,
          schemas_dirty, transaction_in_progress, superblock_backup, panicked,
          last, txn0, txn_log, steps, root, inserted, stored, loans, archive>>

\* Bounds of the exploration.
MaxSteps == 4

MaxKey == 2

MaxBKey == 6

MaxSelSteps == 3

Tables == {"a", "b"}

\* The tables of SpecSelect.
SelTables == {"a", "b", "c"}

\* The column list CREATE TABLE gives each table: a has an indexed integer
\* column, b an integer and a text column, c a real column, d two text
\* columns.
ColumnsOf(t) ==
    IF t = "a"
    THEN <<[name |-> "id", datatype |-> "Integer", index |-> "BTree"]>>
    ELSE IF t = "c"
    THEN <<[name |-> "x", datatype |-> "Real", index |-> "None"]>>
    ELSE IF t = "d"
    THEN <<[name |-> "s", datatype |-> "Text", index |-> "None"],
           [name |-> "t", datatype |-> "Text", index |-> "None"]>>
    ELSE <<[name |-> "id", datatype |-> "Integer", index |-> "None"],
           [name |-> "name", datatype |-> "Text", index |-> "None"]>>

\* A text that fills a whole block.
LongText == [i \in 1..BLOCK_SIZE |-> 7]

\* A text one byte longer than a block.
TooLongText == [i \in 1..(BLOCK_SIZE + 1) |-> 7]

\* A text of n bytes, each c.
TextOf(n, c) == [i \in 1..n |-> c]

\* The VALUES lists of the INSERT statements.
InsertValues ==
    {<<<<Integer(k)>>>> : k \in 1..MaxKey}
    \cup {<<<<Integer(MaxKey + 1)>>, <<Integer(MaxKey + 1)>>>>}
    \cup {<<<<Integer(1), Text(<<8>>)>>>>, <<<<Integer(2), Text(LongText)>>>>}

StmtShowTables == [type |-> "ShowTables"]

\* SELECT targets FROM table JOIN .. ON .. WHERE .. LIMIT ..
StmtSelectFrom(columns, table, join_on, where_, limit) ==
    [type |-> "Select", columns |-> columns, table |-> table, join_on |-> join_on,
     where_ |-> where_, limit |-> limit]

\* SELECT * FROM t
StmtSelect(t) == StmtSelectFrom(<<Wildcard>>, t, <<>>, <<>>, None)

\* EXPLAIN of a SELECT
StmtExplain(stmt) == [stmt EXCEPT !.type = "Explain"]

StmtCreateTable(t) == [type |-> "CreateTable", table |-> t, columns |-> ColumnsOf(t)]

StmtInsertInto(t, values) ==
    [type |-> "InsertInto", table |-> t, columns |-> <<>>, values |-> values]

\* The rows (k) for the keys of a sequence.
KeyRows(keys) == [i \in 1..Len(keys) |-> <<Integer(keys[i])>>]

\* The databases the exploration starts from, each built from the empty
\* store by autocommitted statements: empty; table a with one row; tables
\* a and b with one row in b; table a with enough rows to split a leaf and
\* an internal node of its index.
InitScripts ==
    {<<>>,
     <<StmtCreateTable("a"), StmtInsertInto("a", KeyRows(<<1>>))>>,
     <<StmtCreateTable("a"), StmtCreateTable("b"),
       StmtInsertInto("b", <<<<Integer(1), Text(<<8>>)>>>>)>>,
     <<StmtCreateTable("a"), StmtInsertInto("a", KeyRows(<<1, 2, 3, 4, 5>>))>>}

\* The core as one record.
Self ==
    [op |-> op, log |-> log, blocks |-> blocks, blocks_dirty |-> blocks_dirty,
     superblock |-> superblock, superblock_dirty |-> superblock_dirty,
     schemas |-> schemas, schemas_dirty |-> schemas_dirty,
     transaction_in_progress |-> transaction_in_progress,
     superblock_backup |-> superblock_backup,
     loans |-> loans]

Become(a) ==
    /\ op' = a.op
    /\ log' = a.log
    /\ blocks' = a.blocks
    /\ blocks_dirty' = a.blocks_dirty
    /\ superblock' = a.superblock
    /\ superblock_dirty' = a.superblock_dirty
    /\ schemas' = a.schemas
    /\ schemas_dirty' = a.schemas_dirty
    /\ transaction_in_progress' = a.transaction_in_progress
    /\ superblock_backup' = a.superblock_backup
    /\ loans' = [held |-> {}, twice |-> a.loans.twice]

Start(a) ==
    /\ op = a.op
    /\ log = a.log
    /\ blocks = a.blocks
    /\ blocks_dirty = a.blocks_dirty
    /\ superblock = a.superblock
    /\ superblock_dirty = a.superblock_dirty
    /\ schemas = a.schemas
    /\ schemas_dirty = a.schemas_dirty
    /\ transaction_in_progress = a.transaction_in_progress
    /\ superblock_backup = a.superblock_backup
    /\ loans = NoLoans

\* The statements of a script, each through query().
RECURSIVE Run(_, _)
Run(a, script) ==
    IF script = <<>> THEN a ELSE Run(query(a, Head(script)).a, Tail(script))

\* What a statement would answer on the core a: its success flag and its
\* rows or its error.
AnswerOf(r) == [ok |-> r.ok, v |-> r.v]

Answer(a, stmt) == AnswerOf(query(a, stmt))

\* A fresh core opened over the store.
Fresh == from_op(op).a

NoLog == [created |-> {}, inserted |-> [t \in Tables |-> <<>>]]

NoLast == [type |-> "", table |-> "", ok |-> TRUE, v |-> 0, in_txn |-> FALSE]

\* The history kept along one statement.
Track(stmt, r) ==
    /\ last' = [type |-> stmt.type,
                table |-> IF "table" \in DOMAIN stmt THEN stmt.table ELSE "",
                ok |-> r.ok, v |-> r.v,
                in_txn |-> transaction_in_progress]
    /\ txn0' = IF stmt.type = "StartTransaction" /\ ~transaction_in_progress
               THEN Self ELSE txn0
    /\ txn_log' =
          IF stmt.type = "StartTransaction" /\ ~transaction_in_progress THEN NoLog
          ELSE IF ~(transaction_in_progress /\ r.ok) THEN txn_log
          ELSE IF stmt.type = "CreateTable"
          THEN [txn_log EXCEPT !.created = @ \cup {stmt.table}]
          ELSE IF stmt.type = "InsertInto"
          THEN [txn_log EXCEPT !.inserted[stmt.table] = @ \o stmt.values]
          ELSE txn_log
    /\ steps' = steps + 1

\* The core and the history after a statement that query() answered with r.
Step(stmt, r) ==
    /\ Become(r.a)
    /\ panicked' = r.panic
    /\ Track(stmt, r)

\* The core takes statements until an unwrap() has failed; the exploration
\* stops after MaxSteps statements.
Ready == ~panicked /\ steps < MaxSteps

\* One statement through Aidb::query.
Exec(stmt) ==
    /\ Step(stmt, query(Self, stmt))
    /\ UNCHANGED <<root, inserted, stored, archive>>

ShowTables == Ready /\ Exec(StmtShowTables)

Describe == Ready /\ \E t \in Tables : Exec([type |-> "Describe", table |-> t])

CreateTable == Ready /\ \E t \in Tables : Exec(StmtCreateTable(t))

InsertInto ==
    Ready /\ \E t \in Tables, values \in InsertValues : Exec(StmtInsertInto(t, values))

Select == Ready /\ \E t \in Tables : Exec(StmtSelect(t))

Explain == Ready /\ \E t \in Tables : Exec(StmtExplain(StmtSelect(t)))

FlushTables == Ready /\ Exec([type |-> "FlushTables"])

StartTransaction == Ready /\ Exec([type |-> "StartTransaction"])

Commit == Ready /\ Exec([type |-> "Commit"])

Rollback == Ready /\ Exec([type |-> "Rollback"])

\* The core a, no statement issued yet.
InitFrom(a) ==
    /\ Start(a)
    /\ panicked = FALSE
    /\ last = NoLast
    /\ txn0 = [a EXCEPT !.loans = NoLoans]
    /\ txn_log = NoLog
    /\ steps = 0
    /\ root = 0
    /\ inserted = EmptyMap
    /\ stored = [t \in SelTables |-> <<>>]
    /\ archive = <<>>

\* A core over a store built by one of the scripts, no statement issued yet.
Init == \E script \in InitScripts : InitFrom(Run(new_memory, script))

Next ==
    \/ ShowTables
    \/ Describe
    \/ CreateTable
    \/ InsertInto
    \/ Select
    \/ Explain
    \/ FlushTables
    \/ StartTransaction
    \/ Commit
    \/ Rollback

Spec == Init /\ [][Next]_vars

(***************************************************************************)
(* SpecBTree: the B+tree operations applied directly to an empty core,     *)
(* with the records the tree was given kept as history.                    *)
(***************************************************************************)
BKeys == 1..MaxBKey

\* The record inserted with key k.
RecordOf(k) == [block |-> 100 + k, offset |-> DATA_HEADER_SIZE]

UnchangedStatements == UNCHANGED <<panicked, txn0, txn_log, steps, stored, archive>>

\* The core and the history after new_btree(k, record) answered r.
NewBtreeStep(k, r) ==
    /\ Become(r.a)
    /\ root' = r.v
    /\ inserted' = MapPut(inserted, k, RecordOf(k))
    /\ last' = [type |-> "new_btree", table |-> "", ok |-> TRUE, v |-> k,
                in_txn |-> FALSE]

\* new_btree(k, record) for the first key.
NewBtree ==
    \E k \in BKeys :
        /\ root = 0
        /\ NewBtreeStep(k, new_btree(Self, k, RecordOf(k)))
        /\ UnchangedStatements

\* The core and the history after insert_btree(root, k, record) answered r.
InsertBtreeStep(k, r) ==
    /\ IF r.ok THEN Become(r.a) ELSE Become(Self)
    /\ inserted' = IF r.ok THEN MapPut(inserted, k, RecordOf(k)) ELSE inserted
    /\ last' = [type |-> "insert_btree", table |-> "", ok |-> r.ok,
                v |-> IF r.ok THEN k ELSE r.v, in_txn |-> FALSE]

\* insert_btree(root, k, record); a failed insert is followed by the
\* statement rollback, which discards its changes.
InsertBtree ==
    \E k \in BKeys :
        /\ root # 0
        /\ InsertBtreeStep(k, insert_btree(Self, root, k, RecordOf(k)))
        /\ UNCHANGED root
        /\ UnchangedStatements

InitBTree == InitFrom(new_memory)

NextBTree ==
    \/ NewBtree
    \/ InsertBtree

SpecBTree == InitBTree /\ [][NextBTree]_vars

(***************************************************************************)
(* SpecSelect: autocommitted INSERT, SELECT and EXPLAIN statements over    *)
(* the empty tables a, b and c, with the rows inserted kept as history.    *)
(***************************************************************************)
\* The VALUES lists of the INSERT statements into each table.
SelInsertValues(t) ==
    IF t = "a"
    THEN {<<<<Integer(1)>>>>, <<<<Integer(2)>>>>, <<<<Integer(2)>>, <<Integer(1)>>>>}
    ELSE IF t = "b"
    THEN {<<<<Integer(1), Text(<<8>>)>>>>, <<<<Integer(1), Text(<<>>)>>>>,
          <<<<Null, Null>>>>}
    ELSE {<<<<Real(1)>>>>, <<<<Null>>>>, <<<<Real(2)>>, <<Real(1)>>>>}

\* t.id = k
IdIs(t, k) == Eq(ExprColumn(Full(t, "id")), ExprConst(Integer(k)))

\* SELECT * FROM t WHERE rels
SelectWhere(t, rels) == StmtSelectFrom(<<Wildcard>>, t, <<>>, rels, None)

\* SELECT t1.id, b.name FROM t1 JOIN t2 ON a.id = b.id WHERE rels
SelectJoin(t1, t2, rels) ==
    StmtSelectFrom(<<TargetColumn(Full(t1, "id")), TargetColumn(Full("b", "name"))>>, t1,
                   <<[table |-> t2, on |-> [lhs |-> Full("a", "id"), rhs |-> Full("b", "id")]]>>,
                   rels, None)

\* The SELECT statements issued.
SelStatements ==
    {StmtSelect(t) : t \in SelTables}
    \cup {SelectWhere("a", <<IdIs("a", 1)>>), SelectJoin("a", "b", <<>>)}

SelReady == ~panicked /\ steps < MaxSelSteps

\* INSERT INTO t VALUES ..; the rows of a successful statement are recorded.
SelInsert ==
    /\ SelReady
    /\ \E t \in SelTables :
          \E values \in SelInsertValues(t) :
              /\ Step(StmtInsertInto(t, values), query(Self, StmtInsertInto(t, values)))
              /\ stored' = IF last'.ok THEN [stored EXCEPT ![t] = @ \o values]
                           ELSE stored
    /\ UNCHANGED <<root, inserted, archive>>

SelSelect == SelReady /\ \E stmt \in SelStatements : Exec(stmt)

SelExplain == SelReady /\ \E stmt \in SelStatements : Exec(StmtExplain(stmt))

\* The targets of the constant-only SELECT statements and the row each gives.
ConstTargets ==
    {<<TargetConst(Integer(1))>>,
     <<TargetVariable("@@version_comment")>>,
     <<TargetConst(Text(<<8>>)), TargetConst(Null), TargetVariable("@@other"),
       TargetConst(Real(2))>>}

\* SELECT targets [FROM table] [LIMIT limit]
SelectConst(targets, table, limit) == StmtSelectFrom(targets, table, <<>>, <<>>, limit)

MaxLimit == 2

\* The constant-only SELECT statements: without a table and over a table,
\* without a limit and with the limits 0..MaxLimit.
ConstStatements ==
    {SelectConst(targets, table, limit) :
        targets \in ConstTargets, table \in {"", "b"},
        limit \in {None} \cup {Some(n) : n \in 0..MaxLimit}}

SelConst == SelReady /\ \E stmt \in ConstStatements : Exec(stmt)

InitSelect ==
    InitFrom(Run(new_memory, <<StmtCreateTable("a"), StmtCreateTable("b"),
                               StmtCreateTable("c")>>))

NextSelect ==
    \/ SelInsert
    \/ SelSelect
    \/ SelExplain
    \/ SelConst

SpecSelect == InitSelect /\ [][NextSelect]_vars

(***************************************************************************)
(* SpecText: INSERT statements with texts of several lengths, one of them  *)
(* longer than a block, into the tables b and d, inside and outside of     *)
(* transactions.                                                           *)
(***************************************************************************)
MaxTextSteps == 3

TextTables == {"b", "d"}

\* The VALUES lists whose texts all fit in a block.
TextInsertValues(t) ==
    IF t = "b"
    THEN {<<<<Integer(1), Text(<<>>)>>>>, <<<<Integer(1), Text(TextOf(20, 8))>>>>,
          <<<<Integer(2), Text(LongText)>>>>}
    ELSE {<<<<Text(TextOf(20, 5)), Text(TextOf(20, 6))>>>>,
          <<<<Text(TextOf(30, 4)), Text(<<>>)>>, <<Text(TextOf(30, 3)), Text(<<9>>)>>>>}

\* The VALUES lists with a text longer than a block: in the first column, in
\* a later column, in a later row.
TooLongValues(t) ==
    IF t = "b"
    THEN {<<<<Integer(1), Text(TooLongText)>>>>,
          <<<<Integer(1), Text(<<8>>)>>, <<Integer(2), Text(TooLongText)>>>>}
    ELSE {<<<<Text(TooLongText), Text(<<8>>)>>>>, <<<<Text(<<8>>), Text(TooLongText)>>>>}

\* The INSERT statements with a text longer than a block.
TooLongStatements ==
    UNION {{StmtInsertInto(t, values) : values \in TooLongValues(t)} : t \in TextTables}

TextReady == ~panicked /\ steps < MaxTextSteps

TextInsert ==
    TextReady /\ \E t \in TextTables :
                    \E values \in TextInsertValues(t) : Exec(StmtInsertInto(t, values))

TextInsertTooLong == TextReady /\ \E stmt \in TooLongStatements : Exec(stmt)

TextStartTransaction == TextReady /\ Exec([type |-> "StartTransaction"])

TextCommit == TextReady /\ Exec([type |-> "Commit"])

TextRollback == TextReady /\ Exec([type |-> "Rollback"])

InitText == InitFrom(Run(new_memory, <<StmtCreateTable("b"), StmtCreateTable("d")>>))

NextText ==
    \/ TextInsert
    \/ TextInsertTooLong
    \/ TextStartTransaction
    \/ TextCommit
    \/ TextRollback

SpecText == InitText /\ [][NextText]_vars

(***************************************************************************)
(* SpecBlock: read_physical and write_physical on a store that also holds  *)
(* payloads of other lengths than a block, put there from outside.         *)
(***************************************************************************)
MaxBlockSteps == 3

MaxBlockIndex == 2

BlockIndices == 0..MaxBlockIndex

\* A buffer of raw bytes.
Raw(bytes) == [kind |-> "raw", bytes |-> bytes]

\* Block buffers: BLOCK_SIZE bytes each.
Buffers ==
    {ZeroBlock, Raw(TextOf(BLOCK_SIZE, 0)), Raw(LongText),
     Raw(TextOf(3, 5) \o TextOf(BLOCK_SIZE - 3, 0)),
     Raw(TextOf(BLOCK_SIZE - 1, 0) \o <<1>>)}

\* Payloads shorter and longer than a block.
ForeignPayloads == {Raw(<<>>), Raw(TextOf(3, 5)), Raw(TooLongText),
                    Raw(TextOf(BLOCK_SIZE, 0) \o <<1>>)}

BlockReady == steps < MaxBlockSteps

\* The history of a step on the blocks of index.
BlockTrack(type, index, ok, v) ==
    /\ last' = [type |-> type, table |-> "", ok |-> ok,
                v |-> [index |-> index, block |-> v], in_txn |-> FALSE]
    /\ steps' = steps + 1
    /\ UNCHANGED <<panicked, txn0, txn_log, root, inserted, stored, archive>>

WritePhysical ==
    /\ BlockReady
    /\ \E index \in BlockIndices, block \in Buffers :
          /\ Become(write_physical(Self, index, block))
          /\ BlockTrack("write_physical", index, TRUE, block)

ReadPhysical ==
    /\ BlockReady
    /\ \E index \in BlockIndices :
          /\ Become(read_physical(Self, index).a)
          /\ BlockTrack("read_physical", index, read_physical(Self, index).ok,
                        read_physical(Self, index).v)

\* Another program stores a payload of its own under a key.
ForeignWrite ==
    /\ BlockReady
    /\ \E index \in BlockIndices, payload \in ForeignPayloads :
          /\ Become([Self EXCEPT !.op = MapPut(@, index, payload)])
          /\ BlockTrack("foreign", index, TRUE, payload)

InitBlock == InitFrom(new_memory)

NextBlock ==
    \/ WritePhysical
    \/ ReadPhysical
    \/ ForeignWrite

SpecBlock == InitBlock /\ [][NextBlock]_vars

(***************************************************************************)
(* archive/src/lib.rs: erase_all, save and load over the keyspace of an    *)
(* operator, a map from paths to byte strings; and SpecArchive, which      *)
(* writes keys, saves, erases and loads.                                   *)
(***************************************************************************)
\* A path of the keyspace; a path that ends with '/' is a directory.
Path(name, is_dir) == [name |-> name, is_dir |-> is_dir]

\* op.lister_with("/").recursive(true): the paths, in the order of Pick.
RECURSIVE lister(_)
lister(paths) ==
    IF paths = {} THEN <<>> ELSE <<Pick(paths)>> \o lister(paths \ {Pick(paths)})

\* save: the tar entry appended for a path.
TarEntry(keyspace, path) ==
    IF path.is_dir
    THEN [path |-> path, entry_type |-> "Directory", size |-> 0, mode |-> 493,
          data |-> <<>>]
    ELSE [path |-> path, entry_type |-> "Regular", size |-> Len(keyspace[path]),
          mode |-> 420, data |-> keyspace[path]]

\* zstd::Encoder over the bytes of the tar archive, finished.
ZstdEncoded(tar) == [format |-> "zstd", content |-> tar]

\* archive::erase_all: every listed path is deleted.
erase_all(keyspace) ==
    [path \in (DOMAIN keyspace)
                \ {lister(DOMAIN keyspace)[i] : i \in 1..Len(lister(DOMAIN keyspace))} |->
        keyspace[path]]

\* archive::save: the writer w followed by the encoded archive of all paths.
save(keyspace, w) ==
    Append(w, ZstdEncoded([i \in 1..Len(lister(DOMAIN keyspace)) |->
                              TarEntry(keyspace, lister(DOMAIN keyspace)[i])]))

\* archive::load: the reader is handed back; the operator is not touched.
load(keyspace, r) == [op |-> keyspace, r |-> r]

MaxArchiveSteps == 4

ArchivePaths == {Path("1", FALSE), Path("2", FALSE), Path("d/", TRUE)}

\* The byte strings written under a path.
ArchivePayloads(path) ==
    IF path.is_dir THEN {<<>>} ELSE {<<>>, <<72, 105>>, TextOf(3, 5)}

ArchiveReady == steps < MaxArchiveSteps

\* The history of a step on the keyspace.
ArchiveTrack(type) ==
    /\ last' = [type |-> type, table |-> "", ok |-> TRUE, v |-> 0, in_txn |-> FALSE]
    /\ steps' = steps + 1
    /\ UNCHANGED <<log, blocks, blocks_dirty, superblock, superblock_dirty, schemas,
                   schemas_dirty, transaction_in_progress, superblock_backup, panicked,
                   txn0, txn_log, root, inserted, stored, loans>>

\* op.write(path, payload)
ArchiveWrite ==
    /\ ArchiveReady
    /\ \E path \in ArchivePaths :
          \E payload \in ArchivePayloads(path) : op' = MapPut(op, path, payload)
    /\ UNCHANGED archive
    /\ ArchiveTrack("write")

Save ==
    /\ ArchiveReady
    /\ archive' = save(op, <<>>)
    /\ UNCHANGED op
    /\ ArchiveTrack("save")

EraseAll ==
    /\ ArchiveReady
    /\ op' = erase_all(op)
    /\ UNCHANGED archive
    /\ ArchiveTrack("erase_all")

Load ==
    /\ ArchiveReady
    /\ archive # <<>>
    /\ op' = load(op, archive).op
    /\ archive' = load(op, archive).r
    /\ ArchiveTrack("load")

InitArchive == InitFrom(NewAidb(EmptyMap))

NextArchive ==
    \/ ArchiveWrite
    \/ Save
    \/ EraseAll
    \/ Load

SpecArchive == InitArchive /\ [][NextArchive]_vars

(***************************************************************************)
(* SpecColumns: INSERT statements into the table b with and without a      *)
(* column list, well-formed and not, each autocommitted, with the rows a   *)
(* successful statement is to store kept as history.                       *)
(***************************************************************************)
MaxColSteps == 3

\* INSERT INTO t (columns) VALUES values
StmtInsertColumns(t, columns, values) ==
    [type |-> "InsertInto", table |-> t, columns |-> columns, values |-> values]

\* The INSERT statements into b: columns in another order than the schema's,
\* columns left out, no column list, and rows of two values under one name,
\* of one value under two names, a name given twice, a second row that is
\* too short, and a name the table does not have.
ColStatements ==
    {StmtInsertColumns("b", <<"name", "id">>, <<<<Text(<<8>>), Integer(1)>>>>),
     StmtInsertColumns("b", <<"name">>, <<<<Text(<<8>>)>>, <<Text(<<9>>)>>>>),
     StmtInsertColumns("b", <<"id">>, <<<<Integer(2)>>>>),
     StmtInsertColumns("b", <<>>, <<<<Integer(3), Text(<<>>)>>>>),
     StmtInsertColumns("b", <<"id">>, <<<<Integer(1), Text(<<8>>)>>>>),
     StmtInsertColumns("b", <<>>, <<<<Integer(1), Text(<<8>>), Integer(1)>>>>),
     StmtInsertColumns("b", <<"id", "name">>, <<<<Integer(1)>>>>),
     StmtInsertColumns("b", <<"name", "name">>, <<<<Text(<<8>>), Text(<<9>>)>>>>),
     StmtInsertColumns("b", <<"name", "id">>,
                       <<<<Text(<<8>>), Integer(1)>>, <<Text(<<9>>)>>>>),
     StmtInsertColumns("b", <<"id", "age">>, <<<<Integer(1), Integer(1)>>>>)}

\* The row of table t that holds each value of `row` in the place of the
\* column it was given for, and Null in the other places.
PlacedRow(t, columns, row) ==
    [j \in 1..Len(ColumnsOf(t)) |->
        IF columns = <<>> THEN row[j]
        ELSE IF \E k \in 1..Len(columns) : columns[k] = ColumnsOf(t)[j].name
        THEN row[CHOOSE k \in 1..Len(columns) : columns[k] = ColumnsOf(t)[j].name]
        ELSE Null]

PlacedRows(stmt) ==
    [i \in 1..Len(stmt.values) |-> PlacedRow(stmt.table, stmt.columns, stmt.values[i])]

ColReady == ~panicked /\ steps < MaxColSteps

\* INSERT INTO b (columns) VALUES ..; the rows of a successful statement are
\* recorded, each value under the column it was given for.
ColInsert ==
    /\ ColReady
    /\ \E stmt \in ColStatements :
          /\ Step(stmt, query(Self, stmt))
          /\ stored' = IF last'.ok THEN [stored EXCEPT ![stmt.table] = @ \o PlacedRows(stmt)]
                       ELSE stored
    /\ UNCHANGED <<root, inserted, archive>>

ColSelect == ColReady /\ Exec(StmtSelect("b"))

InitColumns == InitFrom(Run(new_memory, <<StmtCreateTable("b")>>))

NextColumns ==
    \/ ColInsert
    \/ ColSelect

SpecColumns == InitColumns /\ [][NextColumns]_vars

(***************************************************************************)
(* SpecDrop: drop_table called on a core over the tables a, b and c,       *)
(* between autocommitted statements.                                       *)
(***************************************************************************)
MaxDropSteps == 3

DropTables == {"a", "b", "c"}

\* One row for table t.
DropRow(t) ==
    IF t = "a" THEN <<Integer(1)>>
    ELSE IF t = "b" THEN <<Integer(1), Text(<<8>>)>>
    ELSE <<Real(1)>>

\* The statements that look a table up.
Lookups(t) ==
    {[type |-> "Describe", table |-> t], StmtInsertInto(t, <<DropRow(t)>>), StmtSelect(t)}

DropReady == ~panicked /\ steps < MaxDropSteps

\* drop_table(t), called on the core directly.
DropTable ==
    /\ DropReady
    /\ \E t \in DropTables :
          /\ Become(drop_table(Self, t).a)
          /\ panicked' = drop_table(Self, t).panic
          /\ last' = [type |-> "drop_table", table |-> t, ok |-> drop_table(Self, t).ok,
                      v |-> drop_table(Self, t).v, in_txn |-> transaction_in_progress]
    /\ steps' = steps + 1
    /\ UNCHANGED <<txn0, txn_log, root, inserted, stored, archive>>

DropShowTables == DropReady /\ Exec(StmtShowTables)

DropLookup == DropReady /\ \E t \in DropTables : \E stmt \in Lookups(t) : Exec(stmt)

DropFlushTables == DropReady /\ Exec([type |-> "FlushTables"])

InitDrop ==
    InitFrom(Run(new_memory, <<StmtCreateTable("a"), StmtCreateTable("b"),
                               StmtCreateTable("c")>>))

NextDrop ==
    \/ DropTable
    \/ DropShowTables
    \/ DropLookup
    \/ DropFlushTables

SpecDrop == InitDrop /\ [][NextDrop]_vars

(***************************************************************************)
(* SpecRow: write_row applied to rows of tables with few and with many     *)
(* columns, the row written last kept as history.                          *)
(***************************************************************************)
MaxRowSteps == 3

MaxColumns == 255

\* The column counts of the tables: small ones, and those about the ends of
\* the signed and the unsigned 8-bit range.
ColumnCounts == {1, 2, 3, 126, 127, 128, 129, 130, MaxColumns - 1, MaxColumns}

\* n integer columns, and a row of n values c.
WideColumns(n) == [i \in 1..n |-> [name |-> "c", datatype |-> "Integer"]]

WideRow(n, c) == [i \in 1..n |-> Integer(c)]

\* write_row(columns, row) answered w: the row is kept, with the length
\* byte written or the error.
WriteRowStep(row, w) ==
    /\ Become(IF w.ok THEN w.a ELSE Self)
    /\ stored' = [stored EXCEPT !["a"] = <<row>>]
    /\ last' = [type |-> "write_row", table |-> "a", ok |-> w.ok,
                v |-> IF w.ok THEN w.v.len ELSE w.v, in_txn |-> FALSE]
    /\ steps' = steps + 1
    /\ UNCHANGED <<panicked, txn0, txn_log, root, inserted, archive>>

\* The ValueRepr's write_row's loop builds for a row of integers.
IntegerReprs(row) == [i \in 1..Len(row) |-> [tag |-> "Integer", v |-> row[i].v]]

\* write_row on a row of n integers: the loop over the columns, then the
\* RowRepr written at the cursor.
WriteRow ==
    /\ steps < MaxRowSteps
    /\ \E n \in ColumnCounts, c \in {0, 1, 2} :
          WriteRowStep(WideRow(n, c), write_row_repr(Ok(Self, IntegerReprs(WideRow(n, c)))))

\* The slot of the row written last is read with is_row_valid.
ReadRow ==
    /\ steps < MaxRowSteps
    /\ last.type = "write_row"
    /\ last.ok
    /\ last' = [last EXCEPT !.type = "is_row_valid",
                            !.v = is_row_valid([slots |-> (DATA_HEADER_SIZE :>
                                                              [len |-> last.v])],
                                               DATA_HEADER_SIZE)]
    /\ steps' = steps + 1
    /\ UNCHANGED <<op, log, blocks, blocks_dirty, superblock, superblock_dirty, schemas,
                   schemas_dirty, transaction_in_progress, superblock_backup, loans,
                   panicked, txn0, txn_log, root, inserted, stored, archive>>

InitRow == InitFrom(new_memory)

NextRow ==
    \/ WriteRow
    \/ ReadRow

SpecRow == InitRow /\ [][NextRow]_vars

(***************************************************************************)
(* Properties.                                                             *)
(***************************************************************************)
Range(f) == {f[i] : i \in DOMAIN f}

\* The last statement ended a transaction that was in progress by ROLLBACK.
RolledBack == last.type = "Rollback" /\ last.in_txn

\* C1: after START TRANSACTION, successful statements and ROLLBACK, the
\* in-memory superblock equals its value from before START TRANSACTION and
\* the store is unchanged.
C1_RollbackRestoresSuperblock ==
    RolledBack => (superblock = txn0.superblock /\ op = txn0.op)

\* C2: while a transaction is in progress, and through a statement that
\* ends it otherwise than by COMMIT, nothing is written physically: the
\* store and the write log are those of the moment the transaction began.
C2_NoPhysicalWriteInTransaction ==
    (transaction_in_progress \/ (last.in_txn /\ last.type # "Commit"))
        => (op = txn0.op /\ log.written = txn0.log.written)

C2_Witness ==
    /\ transaction_in_progress
    /\ last.type = "InsertInto" /\ last.ok
    /\ blocks_dirty # {}
    /\ superblock # txn0.superblock

\* C3: a statement that returns an error outside a transaction leaves the
\* block cache, the schema cache and the dirty sets empty, the superblock
\* as it was when the statement started, the state Idle and the store and
\* the write log untouched.
C3_FailedStatementRollsBack ==
    [][(~transaction_in_progress /\ ~last'.ok /\ ~panicked')
          => /\ blocks' = EmptyMap
             /\ schemas' = EmptyMap
             /\ blocks_dirty' = {}
             /\ schemas_dirty' = {}
             /\ ~superblock_dirty'
             /\ superblock' = superblock
             /\ ~transaction_in_progress'
             /\ op' = op
             /\ log'.written = log.written]_vars

\* A multi-row INSERT that failed on its second row, outside a transaction.
C3_Witness ==
    /\ last.type = "InsertInto" /\ ~last.ok /\ ~last.in_txn
    /\ last.v = "unique key exists"
    /\ ~transaction_in_progress
    /\ blocks = EmptyMap

\* C4: a statement that fails while a transaction is in progress leaves the
\* state InTransaction and keeps the dirty sets and the superblock of the
\* transaction.
C4_NoImplicitRollbackInTransaction ==
    [][(transaction_in_progress /\ ~last'.ok /\ last'.type # "Commit" /\ ~panicked')
          => /\ transaction_in_progress'
             /\ blocks_dirty \subseteq blocks_dirty'
             /\ schemas_dirty \subseteq schemas_dirty'
             /\ (superblock_dirty => superblock_dirty')]_vars

\* C5: the COMMIT of a transaction of successful CREATE TABLE and INSERT
\* statements succeeds, and a fresh core over the store lists every table
\* created and returns every row inserted in the transaction.
C5_CommitDurability ==
    (last.type = "Commit" /\ last.in_txn)
        => /\ last.ok
           /\ LET s == Answer(Fresh, StmtShowTables)
              IN s.ok /\ txn_log.created \subseteq Range(s.v)
           /\ \A t \in Tables :
                 txn_log.inserted[t] # <<>>
                    => LET r == Answer(Fresh, StmtSelect(t))
                       IN r.ok /\ Range(txn_log.inserted[t]) \subseteq Range(r.v)

\* C6: SHOW TABLES issued inside a transaction succeeds and lists the tables
\* created in it, and SELECT * FROM t issued inside a transaction succeeds
\* and returns the rows inserted into t in it.
C6_VisibilityInTransaction ==
    /\ (last.in_txn /\ last.type = "ShowTables")
          => (last.ok /\ txn_log.created \subseteq Range(last.v))
    /\ (last.in_txn /\ last.type = "Select" /\ txn_log.inserted[last.table] # <<>>)
          => (last.ok /\ Range(txn_log.inserted[last.table]) \subseteq Range(last.v))

\* C7: after a transaction that inserted rows into an existing table t was
\* rolled back, SELECT * FROM t returns exactly what it returned before the
\* transaction.
C7_RollbackRestoresRows ==
    \A t \in Tables :
        (RolledBack /\ Answer(txn0, StmtSelect(t)).ok /\ txn_log.inserted[t] # <<>>)
            => Answer(Self, StmtSelect(t)) = Answer(txn0, StmtSelect(t))

C7_Witness ==
    /\ RolledBack
    /\ txn_log.inserted["a"] # <<>>
    /\ Answer(txn0, StmtSelect("a")).ok
    /\ Answer(txn0, StmtSelect("a")).v # <<>>

\* C8: after a successful statement outside a transaction nothing is left
\* dirty, block 0 of the store holds the superblock, and a fresh core over
\* the store answers SHOW TABLES and SELECT as this core does.
C8_AutocommitPersistence ==
    (~last.in_txn /\ ~transaction_in_progress /\ last.ok /\ ~panicked)
        => /\ ~superblock_dirty /\ schemas_dirty = {} /\ blocks_dirty = {}
           /\ op[0] = SuperBlockBlock(superblock)
           /\ Answer(Fresh, StmtShowTables) = Answer(Self, StmtShowTables)
           /\ \A t \in Tables :
                 Answer(Fresh, StmtSelect(t)) = Answer(Self, StmtSelect(t))

\* The keys of the rows of table a, as SELECT * FROM a returns them.
KeysOfA ==
    LET r == Answer(Self, StmtSelect("a"))
    IN IF r.ok THEN {row[1].v : row \in Range(r.v)} ELSE {}

\* C9: outside a transaction, an INSERT of a key that table a already holds
\* in its indexed column, and an INSERT that gives a new key twice, fail
\* with "unique key exists" and leave the store and the rows unchanged.
C9_UniqueKey ==
    (~transaction_in_progress /\ ~panicked /\ Answer(Self, StmtSelect("a")).ok)
        => \A k \in 1..(MaxKey + 1) :
              LET values == IF k \in KeysOfA THEN KeyRows(<<k>>) ELSE KeyRows(<<k, k>>)
                  r == query(Self, StmtInsertInto("a", values))
              IN /\ ~r.ok
                 /\ r.v = "unique key exists"
                 /\ r.a.op = op
                 /\ Answer(r.a, StmtSelect("a")) = Answer(Self, StmtSelect("a"))

\* C10: select_btree returns the record inserted with k for every inserted
\* key k, and none for every other key.
C10_PointLookup ==
    root # 0
        => \A k \in BKeys :
              LET r == select_btree(Self, root, k)
              IN r.ok /\ r.v = (IF k \in DOMAIN inserted THEN Some(inserted[k]) ELSE None)

\* The bounds a range is asked with.
RangeBounds ==
    {Unbounded} \cup {Included(k) : k \in 0..(MaxBKey + 1)}
                \cup {Excluded(k) : k \in 0..(MaxBKey + 1)}

\* Does key k lie in the effective interval of the range <<lo, hi>>?
InRange(k, lo, hi) ==
    /\ lo.kind = "Included" => k >= lo.v
    /\ lo.kind = "Excluded" => k > lo.v
    /\ hi.kind = "Included" => k <= hi.v
    /\ hi.kind = "Excluded" => k < hi.v

RECURSIVE RangeRecords(_, _, _)
\* The records inserted with the keys from k up in the range, by ascending key.
RangeRecords(k, lo, hi) ==
    IF k > MaxBKey THEN <<>>
    ELSE (IF k \in DOMAIN inserted /\ InRange(k, lo, hi) THEN <<inserted[k]>> ELSE <<>>)
         \o RangeRecords(k + 1, lo, hi)

RECURSIVE RangePulls(_, _, _, _)
\* The records select_range_btree answers when pulled until it answers None,
\* at most n times.
RangePulls(a, range, state, n) ==
    LET r == select_range_btree(a, root, range, state)
    IN IF n = 0 \/ ~r.ok \/ r.v.record = None THEN <<>>
       ELSE r.v.record \o RangePulls(r.a, range, r.v.state, n - 1)

\* C11: for every lower and upper bound, pulling select_range_btree from
\* Initialized until it answers None returns exactly the records whose keys
\* lie in the interval, each once, by ascending key.
C11_RangeCompleteness ==
    root # 0
        => \A lo \in RangeBounds, hi \in RangeBounds :
              RangePulls(Self, <<lo, hi>>, RangeInitialized, MaxBKey + 1)
                  = RangeRecords(1, lo, hi)

\* The multiset of the rows of a sequence.
BagOf(rows) ==
    [row \in Range(rows) |-> Cardinality({i \in DOMAIN rows : rows[i] = row})]

\* t.column = NULL, and t.column = t.column
ColumnIsNull(t, column) == Eq(ExprColumn(Full(t, column)), ExprConst(Null))

ColumnIsItself(t, column) == Eq(ExprColumn(Full(t, column)), ExprColumn(Full(t, column)))

\* C12: a Selection never accepts a row because two Null values compare
\* equal: SELECT * FROM b WHERE name = NULL returns no row, and
\* SELECT * FROM b WHERE id = id returns no row whose id is NULL.
C12_NullEquality ==
    LET isnull == Answer(Self, SelectWhere("b", <<ColumnIsNull("b", "name")>>))
        itself == Answer(Self, SelectWhere("b", <<ColumnIsItself("b", "id")>>))
    IN /\ isnull.ok => isnull.v = <<>>
       /\ itself.ok => \A i \in DOMAIN itself.v : itself.v[i][1] # Null

\* The rows SELECT a.id, b.name FROM a JOIN b ON a.id = b.id is to return
\* for the rows as of a and bs of b: one per pair with equal keys, none of
\* them NULL.
RECURSIVE JoinPairs(_, _, _, _)
JoinPairs(as, bs, i, j) ==
    IF i > Len(as) THEN <<>>
    ELSE IF j > Len(bs) THEN JoinPairs(as, bs, i + 1, 1)
    ELSE (IF as[i][1] # Null /\ as[i][1] = bs[j][1] THEN <<<<as[i][1], bs[j][2]>>>>
          ELSE <<>>) \o JoinPairs(as, bs, i, j + 1)

\* C13: SELECT a.id, b.name FROM a JOIN b ON a.id = b.id returns exactly
\* one row per pair (row of a, row of b) whose keys are equal.
C13_JoinResult ==
    LET as == Answer(Self, StmtSelect("a"))
        bs == Answer(Self, StmtSelect("b"))
        joined == Answer(Self, SelectJoin("a", "b", <<>>))
    IN (as.ok /\ bs.ok)
           => joined.ok /\ BagOf(joined.v) = BagOf(JoinPairs(as.v, bs.v, 1, 1))

\* The rows of table t that fit one block.
RowsPerBlock(t) ==
    (BLOCK_SIZE - DATA_HEADER_SIZE - 1) \div row_size([columns |-> SchemaColumns(ColumnsOf(t))])

\* C14: after successful INSERT statements a Scan of the table (SELECT *)
\* returns the multiset of the rows inserted, and the rows of a table that
\* fills one block come back in the order they were inserted.
C14_RowRoundTrip ==
    ~panicked
        => \A t \in SelTables :
              LET r == Answer(Self, StmtSelect(t))
              IN /\ r.ok
                 /\ BagOf(r.v) = BagOf(stored[t])
                 /\ Len(stored[t]) <= RowsPerBlock(t) => r.v = stored[t]

\* A scan has returned the rows of b, which span two blocks and hold an
\* integer, a text, an empty string or NULLs.
C14_Witness ==
    /\ last.type = "Select"
    /\ last.table = "b"
    /\ last.ok
    /\ Len(last.v) = 2
    /\ last.v = stored["b"]
    /\ last.v[1] # last.v[2]
    /\ \E i \in 1..2 : last.v[i] \in {<<Null, Null>>, <<Integer(1), Text(<<>>)>>}

\* The WHERE clauses over the indexed column a.id.
IdClauses ==
    {<<IdIs("a", k)>> : k \in 1..3} \cup {<<IdIs("a", 1), IdIs("a", 2)>>}

\* C15: a SELECT over the indexed column a.id returns exactly the rows a
\* full Scan of a filtered by the same constraints returns.
C15_IndexProbeEqualsScan ==
    LET all == Answer(Self, StmtSelect("a"))
    IN all.ok
           => \A rels \in IdClauses :
                 LET Keep(row) == \A k \in DOMAIN rels : row[1] = rels[k].rhs.value
                     probed == Answer(Self, SelectWhere("a", rels))
                 IN probed.ok /\ probed.v = SelectSeq(all.v, Keep)

\* The access nodes of a plan, from left to right.
RECURSIVE AccessNodes(_)
AccessNodes(plan) ==
    IF plan.op \in {"Scan", "BTreeExact"} THEN <<plan>>
    ELSE Flatten([k \in 1..Len(plan.inner) |-> AccessNodes(plan.inner[k])])

\* The physical plan of a statement on the core a.
PlanOf(a, stmt) == plan_logical(build_logical_plan(a, stmt))

\* The access node table t is to get under the relations of the WHERE
\* clause: a BTreeExact on its own index for a constant of an indexed
\* column of t, a Scan of t otherwise.
AccessNodeFor(t, rels) ==
    LET schema == get_schema(Self, t).v
        mine == {k \in DOMAIN rels :
                    /\ rels[k].lhs.col.table = t
                    /\ \E x \in DOMAIN schema.indices :
                          schema.columns[schema.indices[x].column_index + 1].name
                              = rels[k].lhs.col.column}
    IN IF mine = {} THEN Scan(row_size(schema), schema.data_block)
       ELSE BTreeExact(schema.indices[1].block, rels[Min(mine)].rhs.value.v)

\* The statements whose plans are looked at.
PlannedStatements ==
    {SelectJoin(t1, t2, rels) : <<t1, t2>> \in {<<"a", "b">>, <<"b", "a">>},
                                rels \in {<<>>, <<IdIs("a", 1)>>}}
    \cup {SelectWhere("a", <<IdIs("a", 1)>>), StmtSelect("b")}

\* C16: the physical plan holds one access node per table of the statement,
\* in FROM/JOIN order: a BTreeExact on the table's own index when a constant
\* constrains an indexed column of it, a Scan of the table otherwise.
C16_AccessNodeChoice ==
    \A stmt \in PlannedStatements :
        LET p == PlanOf(Self, stmt)
        IN /\ p.ok
           /\ AccessNodes(p.v) = [i \in 1..Len(StmtTables(stmt)) |->
                                     AccessNodeFor(StmtTables(stmt)[i], stmt.where_)]

\* C17: EXPLAIN shows the physical plan the SELECT of the same statement
\* builds on the same database, before and after the EXPLAIN, and on a
\* fresh core over the same store: the same access nodes in both.
C17_PlannerEquivalence ==
    ~panicked
        => \A stmt \in PlannedStatements \cup SelStatements :
              LET e == query(Self, StmtExplain(stmt))
                  p == PlanOf(Self, stmt)
              IN /\ e.ok = p.ok
                 /\ e.ok => /\ e.v = <<<<Text(PlanString(p.v))>>>>
                            /\ PlanOf(e.a, stmt).ok
                            /\ PlanOf(e.a, stmt).v = p.v
                            /\ PlanOf(Fresh, stmt).ok
                            /\ AccessNodes(PlanOf(Fresh, stmt).v) = AccessNodes(p.v)

\* EXPLAIN has shown a plan that probes the index of a.
C17_Witness ==
    /\ last.type = "Explain"
    /\ last.ok
    /\ stored["a"] # <<>>
    /\ "btree@" \in Range(last.v[1][1].v)
    /\ PlanOf(Self, SelectWhere("a", <<IdIs("a", 1)>>)).v.inner[1].op = "BTreeExact"

\* The statements that are neither START TRANSACTION, COMMIT nor ROLLBACK.
PlainStatements ==
    {"CreateTable", "InsertInto", "Select", "Explain", "ShowTables", "Describe",
     "FlushTables"}

\* The cached and the stored state, the transaction flag and the backup apart.
CoreState ==
    <<op, blocks, blocks_dirty, superblock, superblock_dirty, schemas, schemas_dirty>>

\* One statement of the transaction state machine.
TransactionStep ==
    ~panicked'
        => /\ last'.type = "StartTransaction"
                => /\ transaction_in_progress'
                   /\ transaction_in_progress => UNCHANGED CoreState
           /\ last'.type = "Commit"
                => /\ ~transaction_in_progress'
                   /\ ~transaction_in_progress => UNCHANGED CoreState
           /\ last'.type = "Rollback" => ~transaction_in_progress'
           /\ last'.type \in PlainStatements /\ last'.ok
                => transaction_in_progress' = transaction_in_progress

\* C18: START TRANSACTION ends in a transaction and changes nothing when one
\* is already in progress; COMMIT ends idle and changes nothing when idle;
\* ROLLBACK always ends idle; no other successful statement changes the
\* transaction state.
C18_TransactionStateMachine == [][TransactionStep]_vars

\* A COMMIT has closed a transaction in which a statement had succeeded.
C18_Witness ==
    /\ last.type = "Commit"
    /\ last.ok
    /\ last.in_txn
    /\ ~transaction_in_progress
    /\ txn_log # NoLog

\* One ROLLBACK: the caches and the dirty sets end empty, the superblock is
\* the one query() saved in superblock_backup before dispatching, the core
\* ends idle and the store is not written.
RollbackStep ==
    last'.type = "Rollback" /\ ~panicked'
        => /\ blocks' = EmptyMap
           /\ schemas' = EmptyMap
           /\ blocks_dirty' = {}
           /\ schemas_dirty' = {}
           /\ ~superblock_dirty'
           /\ superblock' = superblock
           /\ ~transaction_in_progress'
           /\ op' = op
           /\ log'.written = log.written

\* C19: a ROLLBACK, in a transaction or not, leaves the block cache, the
\* schema cache and the dirty sets empty, the superblock equal to the
\* backup, the core idle, and writes nothing to the store.
C19_RollbackInEitherState == [][RollbackStep]_vars

\* What the core answers to the reading statements.
Readings(a) ==
    [t \in Tables |-> Answer(a, StmtSelect(t))] @@ ("" :> Answer(a, StmtShowTables))

\* The cached and the stored state of the core a.
CoreStateOf(a) ==
    <<a.op, a.blocks, a.blocks_dirty, a.superblock, a.superblock_dirty, a.schemas,
      a.schemas_dirty>>

\* FLUSH TABLES on the core a, answered with r: it answers Meta{0}; outside a
\* transaction the two caches end empty and every reading statement answers
\* as before; inside a transaction the caches, the dirty sets and the
\* superblock stay as they are.
Flushed(a, r) ==
    /\ ~r.panic
    /\ r.ok
    /\ r.v = 0
    /\ a.transaction_in_progress => CoreStateOf(r.a) = CoreStateOf(a)
    /\ ~a.transaction_in_progress
         => /\ r.a.blocks = EmptyMap
            /\ r.a.schemas = EmptyMap
            /\ Readings(r.a) = Readings(a)

\* C20: FLUSH TABLES answers Meta{0} in every state; outside a transaction it
\* empties the schema cache and the block cache and loses no mutation; inside
\* a transaction it changes neither the caches, the dirty sets nor the
\* superblock.
C20_FlushTables ==
    ~panicked => Flushed(Self, query(Self, [type |-> "FlushTables"]))

\* The part of the superblock that allocation and text spilling move.
Cursors(sb) == <<sb.next_empty_block, sb.next_text_block, sb.next_text_offset>>

\* An INSERT with a text longer than a block, answered with r on the core a:
\* it fails with "text too long" and the store, the text cursor and
\* next_empty_block are as before.
TooLongRejected(a, r) ==
    /\ ~r.panic
    /\ ~r.ok
    /\ r.v = "text too long"
    /\ r.a.op = a.op
    /\ r.a.log.written = a.log.written
    /\ Cursors(r.a.superblock) = Cursors(a.superblock)

\* C21: an INSERT with a text longer than a block, in whatever column or row,
\* fails with "text too long" and leaves the store, the text cursor of the
\* superblock and next_empty_block unchanged.
C21_TextTooLong ==
    ~panicked => \A stmt \in TooLongStatements : TooLongRejected(Self, query(Self, stmt))

\* The bytes of a block buffer of raw bytes or of zeros.
BufferBytes(block) ==
    IF block.kind = "zero" THEN TextOf(BLOCK_SIZE, 0) ELSE block.bytes

\* write_physical(index, block) then read_physical(index) on the core a
\* gives the block back and logs the write and the read.
WrittenThenRead(a, index, block) ==
    LET r == read_physical(write_physical(a, index, block), index)
    IN /\ r.ok
       /\ r.v = block
       /\ Len(BufferBytes(r.v)) = BLOCK_SIZE
       /\ index \in r.a.log.written
       /\ index \in r.a.log.read

\* read_physical(index) on the core a: NotFound and no read logged when the
\* key is missing; otherwise BLOCK_SIZE bytes, those of the payload cut or
\* padded with zeros.
ReadWhole(a, index) ==
    LET r == read_physical(a, index)
    IN IF index \notin DOMAIN a.op
       THEN ~r.ok /\ r.v = "NotFound" /\ r.a = a
       ELSE /\ r.ok
            /\ index \in r.a.log.read
            /\ a.op[index].kind = "raw"
                 => /\ Len(r.v.bytes) = BLOCK_SIZE
                    /\ \A i \in 1..BLOCK_SIZE :
                          r.v.bytes[i] = IF i <= Len(a.op[index].bytes)
                                         THEN a.op[index].bytes[i] ELSE 0

\* C22: a block written with write_physical is read back equal by
\* read_physical; read_physical always answers BLOCK_SIZE bytes, a shorter
\* payload padded with zeros and a longer one cut; a missing key answers
\* NotFound and logs no read.
C22_BlockRoundTrip ==
    \A index \in BlockIndices :
        /\ ReadWhole(Self, index)
        /\ \A block \in Buffers : WrittenThenRead(Self, index, block)

\* A payload of another length than a block has been read, and a written
\* block has replaced it.
C22_Witness ==
    /\ last.type = "read_physical"
    /\ last.ok
    /\ op[last.v.index].kind = "raw"
    /\ Len(op[last.v.index].bytes) # BLOCK_SIZE
    /\ Len(last.v.block.bytes) = BLOCK_SIZE
    /\ \E index \in BlockIndices : index \in log.written /\ index # 0

\* No element occurs twice in the sequence.
Distinct(seq) == \A i, j \in DOMAIN seq : seq[i] = seq[j] => i = j

\* CREATE TABLE t on the core a fails with "Table exists".
Exists(a, t) ==
    LET r == query(a, StmtCreateTable(t))
    IN ~r.panic /\ ~r.ok /\ r.v = "Table exists"

\* The schema chain of the core a as show_tables walks it lists each name
\* once; CREATE TABLE of a listed name fails with "Table exists".
NamesUnique(a) ==
    LET chain == show_tables(a)
    IN chain.ok
         => /\ Distinct(chain.v)
            /\ \A t \in Tables :
                  t \in Range(chain.v)
                      => Exists(a, t)

\* C23: in any state, CREATE TABLE of a name present in the schema chain, a
\* table created in the open transaction included, fails with "Table
\* exists"; the chain can be walked to its end at 0, holds every table
\* created successfully and holds each name once.
C23_SchemaNamesUnique ==
    ~panicked
        => /\ NamesUnique(Self)
           /\ last.type = "CreateTable" /\ last.ok
                => /\ show_tables(Self).ok
                   /\ last.table \in Range(show_tables(Self).v)
                   /\ Exists(Self, last.table)

\* The value of a constant or variable target.
TargetValue(target) ==
    IF target.kind = "Const" THEN target.value
    ELSE IF target.name = "@@version_comment" THEN Text(<<97, 105, 100, 98>>)
    ELSE Null

\* The rows a constant-only SELECT is to answer: the one row of its values,
\* none with LIMIT 0.
ConstRows(stmt) ==
    IF stmt.limit = Some(0) THEN <<>>
    ELSE <<[k \in 1..Len(stmt.columns) |-> TargetValue(stmt.columns[k])]>>

\* C24: a SELECT of constants and session variables only answers exactly one
\* row, the values of its targets with @@version_comment as the text "aidb",
\* and no row with LIMIT 0, whatever the database holds and with or without
\* a table; the empty cartesian product yields one empty row and then None.
C24_ConstantSelect ==
    ~panicked
        => /\ \A stmt \in ConstStatements :
                 Answer(Self, stmt) = [ok |-> TRUE, v |-> ConstRows(stmt)]
           /\ LET first == cartesian_product(Self, CartesianProduct(<<>>))
                  second == cartesian_product(first.a, first.v.plan)
              IN /\ first.ok /\ first.v.row = Some(<<>>)
                 /\ second.ok /\ second.v.row = None

\* SELECT @@version_comment LIMIT 1 has answered the row ("aidb") on a
\* database that holds rows.
C24_Witness ==
    /\ last.type = "Select"
    /\ last.ok
    /\ Len(last.v) = 1
    /\ Len(last.v[1]) = 1
    /\ last.v[1][1].t = "Text"
    /\ last.v[1][1] = Text(<<97, 105, 100, 98>>)
    /\ \E t \in SelTables : stored[t] # <<>>

\* C25: saving the keyspace, erasing it and loading the archive restores
\* every key with its bytes, and loading leaves the archive bytes as they
\* were.
C25_ArchiveRoundTrip ==
    /\ load(erase_all(op), save(op, <<>>)).op = op
    /\ load(erase_all(op), save(op, <<>>)).r = save(op, <<>>)

\* C26: get_block is never called for an index whose buffer was handed out by
\* an earlier get_block or new_block and not yet given back with put_block.
C26_ExclusiveBlockLoan == ~loans.twice

\* The block index holds in the core: the cached buffer, else the stored one.
BlockAt(index) == IF index \in DOMAIN blocks THEN blocks[index] ELSE op[index]

\* The indices of the leaves of the tree.
LeafBlocks ==
    {index \in (DOMAIN blocks) \cup (DOMAIN op) : BlockAt(index).kind = "leaf"}

\* The leftmost leaf: the first child of the first child of the root.
LeftmostLeaf == BlockAt(BlockAt(root).children[1].child).children[1].child

\* The leaves met by following next from leaf index, at most fuel of them.
RECURSIVE LeafChain(_, _)
LeafChain(index, fuel) ==
    IF index = 0 \/ fuel = 0 THEN <<>>
    ELSE <<index>> \o LeafChain(BlockAt(index).next, fuel - 1)

\* The keys of a leaf, in the order of its records.
LeafKeys(index) ==
    [i \in 1..Len(BlockAt(index).records) |-> BlockAt(index).records[i].key]

\* Strictly ascending.
Ascending(keys) == \A i, j \in DOMAIN keys : i < j => keys[i] < keys[j]

\* The chain from the leftmost leaf visits every leaf once and ends at 0, and
\* the keys met along it ascend strictly.
LeavesInOrder ==
    LET chain == LeafChain(LeftmostLeaf, Cardinality(LeafBlocks) + 1)
    IN /\ Len(chain) = Cardinality(LeafBlocks)
       /\ Range(chain) = LeafBlocks
       /\ \A i \in DOMAIN chain : Ascending(LeafKeys(chain[i]))
       /\ \A i \in DOMAIN chain :
             i < Len(chain)
                 => \A k1 \in Range(LeafKeys(chain[i])), k2 \in Range(LeafKeys(chain[i + 1])) :
                       k1 < k2

\* C27: after any sequence of successful inserts the records of every leaf
\* are in strictly ascending key order, and following next from the leftmost
\* leaf visits every leaf once, with all keys of a leaf below all keys of its
\* successor, ending at next = 0.
C27_LeafOrder == root # 0 => LeavesInOrder

\* The entries of a root or internal node block, or the records of a leaf.
EntriesOf(block) == IF block.kind = "leaf" THEN block.records ELSE block.children

\* The blocks of the tree: the root, the internal nodes below it, and the
\* leaves below these.
NodesBelow(index) ==
    {BlockAt(index).children[i].child : i \in DOMAIN BlockAt(index).children}

TreeNodes == NodesBelow(root)

TreeLeaves == UNION {NodesBelow(n) : n \in TreeNodes}

\* ceil((BTREE_N + 1) / 2)
MinFill == (BTREE_N + 2) \div 2

\* Between one and BTREE_N + 1 entries.
Occupied(index) ==
    /\ EntriesOf(BlockAt(index)) # <<>>
    /\ Len(EntriesOf(BlockAt(index))) <= BTREE_N + 1

\* Root, internal nodes, leaves: every path from the root has three levels.
ThreeLevels ==
    /\ BlockAt(root).kind = "node"
    /\ \A n \in TreeNodes : BlockAt(n).kind = "node"
    /\ \A l \in TreeLeaves : BlockAt(l).kind = "leaf"

\* The two halves of a vector of BTREE_N + 2 entries hold MinFill or more.
SplitFills(entries) ==
    /\ Len(SplitKept(entries)) >= MinFill
    /\ Len(SplitOff(entries)) >= MinFill
    /\ SplitKept(entries) \o SplitOff(entries) = entries

\* The tree after insert_btree(root, k, record) answered r: an insert that
\* fails leaves the root as it was, and one that succeeds leaves a root
\* within its capacity.
RootKept(r) ==
    /\ ~r.panic
    /\ IF r.ok
       THEN LET g == get_block(r.a, root) IN
            g.ok /\ g.v.children # <<>> /\ Len(g.v.children) <= BTREE_N + 1
       ELSE r.v \in {"unique key exists", "assertion failed"}

\* C28: every root, internal node and leaf holds between one and N + 1
\* entries; a full node or leaf that takes one more entry is split into two
\* halves of ceil((N + 1) / 2) entries or more; every path from the root to a
\* leaf has three levels; and an insert never writes an oversized root: it
\* answers an error when the root would exceed N + 1 children.
C28_Occupancy ==
    root # 0 =>
        /\ ThreeLevels
        /\ \A index \in {root} \cup TreeNodes \cup TreeLeaves : Occupied(index)
        /\ \A index \in TreeNodes \cup TreeLeaves :
              Len(EntriesOf(BlockAt(index))) = BTREE_N + 1
                  => SplitFills(EntriesOf(BlockAt(index))
                                \o <<Head(EntriesOf(BlockAt(index)))>>)
        /\ \A k \in BKeys : RootKept(insert_btree(Self, root, k, RecordOf(k)))
        /\ (last.type = "insert_btree" /\ ~last.ok)
               => last.v \in {"unique key exists", "assertion failed"}

\* An insert was refused because the root, already holding N + 1 internal
\* nodes that came of splits, would have taken one more.
C28_Witness ==
    /\ root # 0
    /\ last.type = "insert_btree"
    /\ ~last.ok
    /\ last.v = "assertion failed"
    /\ Len(BlockAt(root).children) = BTREE_N + 1
    /\ Cardinality(TreeLeaves) > BTREE_N + 1

\* What new_block answers on the core a: the index is the counter of the
\* superblock, the counter has advanced by one, the superblock is dirty and
\* the buffer is zeroed.
Allocates(a, nb) ==
    /\ nb.index = a.superblock.next_empty_block
    /\ nb.a.superblock.next_empty_block = nb.index + 1
    /\ nb.a.superblock_dirty
    /\ nb.block = ZeroBlock

\* The counter of the superblock the store holds.
PersistedNextEmptyBlock == op[0].sb.next_empty_block

\* C29: new_block returns next_empty_block, advances it by one, marks the
\* superblock dirty and returns a zeroed buffer; the index it returns is
\* never 0 and never the index of a block the store holds, and every block
\* index the store holds is smaller than the stored next_empty_block.
C29_BlockAllocation ==
    /\ Allocates(Self, new_block(Self))
    /\ new_block(Self).index # 0
    /\ new_block(Self).index \notin DOMAIN op
    /\ 0 \in DOMAIN op
    /\ op[0].kind = "super"
    /\ \A index \in DOMAIN op : index < PersistedNextEmptyBlock
    /\ superblock.next_empty_block >= PersistedNextEmptyBlock

\* A ROLLBACK ended a transaction that had allocated blocks: the counter of
\* the core is ahead of the stored one, and the store holds blocks of tables.
C29_Witness ==
    /\ last.type = "Rollback"
    /\ last.in_txn
    /\ ~transaction_in_progress
    /\ 0 \in DOMAIN op
    /\ superblock.next_empty_block > PersistedNextEmptyBlock
    /\ Cardinality(DOMAIN op) > 1

\* The blocks as the core sees them: the cached buffer, else the stored one.
CoreBlocks == [index \in (DOMAIN blocks) \cup (DOMAIN op) |-> BlockAt(index)]

\* The text values of the rows held in the data blocks of m, each with the
\* place of its row, its length and its pointer.
TextPayloads(m) ==
    UNION {UNION {{[data |-> index, pos |-> pos, column |-> i,
                    len |-> m[index].slots[pos].values[i].len,
                    ptr |-> m[index].slots[pos].values[i].ptr] :
                      i \in {j \in DOMAIN m[index].slots[pos].values :
                                m[index].slots[pos].values[j].tag = "Text"}} :
                  pos \in DOMAIN m[index].slots} :
           index \in {j \in DOMAIN m : m[j].kind = "data"}}

\* The payload p lies inside one text-spill block of m; the empty string is
\* the pointer (0, 0).
InsideOneBlock(m, p) ==
    IF p.len = 0 THEN p.ptr = [block |-> 0, offset |-> 0]
    ELSE /\ p.ptr.block \in DOMAIN m
         /\ m[p.ptr.block].kind = "text"
         /\ p.ptr.offset + p.len <= BLOCK_SIZE
         /\ p.ptr.offset + p.len <= Len(m[p.ptr.block].bytes)

\* Two non-empty payloads of one block share no byte.
Apart(p, q) ==
    (p.len > 0 /\ q.len > 0 /\ p.ptr.block = q.ptr.block)
        => (p.ptr.offset + p.len <= q.ptr.offset \/ q.ptr.offset + q.len <= p.ptr.offset)

\* The payloads of m lie inside one block each and do not overlap.
TextsSpilled(m) ==
    /\ \A p \in TextPayloads(m) : InsideOneBlock(m, p)
    /\ \A p, q \in TextPayloads(m) : p # q => Apart(p, q)

\* What insert_text(s) answers with r on the core a.
SpillsText(a, s, r) ==
    IF s = <<>> THEN r.ok /\ r.v = [block |-> 0, offset |-> 0] /\ r.a = a
    ELSE IF Len(s) > BLOCK_SIZE THEN ~r.ok
    ELSE IF \/ a.superblock.next_text_block = 0
            \/ BLOCK_SIZE - a.superblock.next_text_offset < Len(s)
    THEN /\ r.ok
         /\ r.v = [block |-> a.superblock.next_empty_block, offset |-> 0]
         /\ r.a.blocks[r.v.block] = [kind |-> "text", bytes |-> s]
    ELSE r.ok => /\ r.v = [block |-> a.superblock.next_text_block,
                           offset |-> a.superblock.next_text_offset]
                 /\ r.v.offset + Len(s) <= BLOCK_SIZE
                 /\ TextRead(r.a.blocks[r.v.block], r.v.offset, Len(s)) = s

\* The texts handed to insert_text.
SpilledTexts == {<<>>, <<9>>, TextOf(20, 8), TextOf(30, 4), LongText, TooLongText}

\* C30: every non-empty text of a row lies inside one text-spill block, no
\* two of them overlap, and the empty string is the pointer (0, 0); a text
\* that does not fit in the rest of the current text block, or the first
\* text, goes to a newly allocated block at offset 0, and the empty string
\* touches no block.
C30_TextSpill ==
    /\ TextsSpilled(CoreBlocks)
    /\ TextsSpilled(op)
    /\ \A s \in SpilledTexts : SpillsText(Self, s, insert_text(Self, s))

\* The store holds an empty text and, in one text block, a text that starts
\* where another ends, while another text went to a block of its own.
C30_Witness ==
    /\ last.type = "InsertInto"
    /\ last.ok
    /\ \E p \in TextPayloads(op) : p.len = 0
    /\ \E p, q \in TextPayloads(op) :
          /\ p.len > 0
          /\ q.len > 0
          /\ p.ptr.block = q.ptr.block
          /\ q.ptr.offset = p.ptr.offset + p.len
    /\ \E p, q \in TextPayloads(op) :
          p.len > 0 /\ q.len > 0 /\ p.ptr.block # q.ptr.block /\ q.ptr.offset = 0

\* The names an INSERT gives its values for: the column list, or every column
\* of the table when there is none.
NamedColumns(stmt) ==
    IF stmt.columns = <<>>
    THEN [j \in 1..Len(ColumnsOf(stmt.table)) |-> ColumnsOf(stmt.table)[j].name]
    ELSE stmt.columns

\* The rows of the statement that have not one value for each name.
Misfits(stmt) ==
    {i \in 1..Len(stmt.values) : Len(stmt.values[i]) # Len(NamedColumns(stmt))}

\* The error an INSERT is rejected with, "" when it is accepted.
Rejection(stmt) ==
    IF \E k \in DOMAIN stmt.columns :
          \A j \in DOMAIN ColumnsOf(stmt.table) :
             ColumnsOf(stmt.table)[j].name # stmt.columns[k]
    THEN "column not found"
    ELSE IF ~Distinct(stmt.columns) THEN "column specified multiple times"
    ELSE IF Misfits(stmt) = {} THEN ""
    ELSE IF Len(stmt.values[Min(Misfits(stmt))]) > Len(NamedColumns(stmt))
    THEN "too much values"
    ELSE "missing values"

\* The INSERT stmt answered with r: affected_rows is the number of its rows,
\* or it is rejected with its error.
ColumnsMapped(stmt, r) ==
    /\ ~r.panic
    /\ IF Rejection(stmt) = "" THEN r.ok /\ r.v = Len(stmt.values)
       ELSE ~r.ok /\ r.v = Rejection(stmt)

\* C31: the rows of b are those of the successful INSERT statements, each
\* value in the place of the column it was given for and Null in the places
\* of the columns not named; an INSERT with a row of too many values is
\* rejected with "too much values", of too few with "missing values", with a
\* column named twice with "column specified multiple times", and an
\* accepted one answers the number of its rows.
C31_ColumnMapping ==
    ~panicked
        => /\ Answer(Self, StmtSelect("b")).ok
           /\ BagOf(Answer(Self, StmtSelect("b")).v) = BagOf(stored["b"])
           /\ \A stmt \in ColStatements : ColumnsMapped(stmt, query(Self, stmt))

\* Rows given as (name, id) and as (name) alone have been stored and read
\* back, and the last INSERT was rejected for a row of too few values.
C31_Witness ==
    /\ last.type = "InsertInto"
    /\ ~last.ok
    /\ last.v = "missing values"
    /\ \E i \in DOMAIN stored["b"] : stored["b"][i] = <<Integer(1), Text(<<8>>)>>
    /\ \E i \in DOMAIN stored["b"] : stored["b"][i] = <<Null, Text(<<9>>)>>
    /\ Answer(Self, StmtSelect("b")).ok
    /\ BagOf(Answer(Self, StmtSelect("b")).v) = BagOf(stored["b"])

\* The tables SHOW TABLES lists on the core a.
Listed(a) == Range(show_tables(a).v)

\* The sequence s without the element e.
Without(s, e) == SelectSeq(s, LAMBDA x : x # e)

\* The statement stmt finds no table on the core a.
NotFound(a, stmt) ==
    /\ ~query(a, stmt).ok
    /\ ~query(a, stmt).panic
    /\ query(a, stmt).v = "table not found"

\* drop_table(t) answered with r on the core a: an unknown name is refused;
\* else SHOW TABLES lists the other tables as before, every lookup of t
\* fails with "table not found", and the other tables are still described.
Dropped(a, t, r) ==
    IF t \notin Listed(a) THEN ~r.ok /\ r.v = "table not found"
    ELSE /\ r.ok
         /\ query(r.a, StmtShowTables).ok
         /\ query(r.a, StmtShowTables).v = Without(show_tables(a).v, t)
         /\ \A stmt \in Lookups(t) : NotFound(r.a, stmt)
         /\ \A u \in Listed(a) \ {t} : query(r.a, [type |-> "Describe", table |-> u]).ok

\* C32: drop_table fails with "table not found" for a name that is not in
\* the chain; for a table of the chain it succeeds, and afterwards SHOW
\* TABLES omits the table, DESCRIBE, INSERT and SELECT on it fail with
\* "table not found", and the other tables are listed and described as
\* before.
C32_DropTable ==
    (~panicked /\ show_tables(Self).ok)
        => \A t \in DropTables : Dropped(Self, t, drop_table(Self, t))

\* The statements whose operations take blocks out of the cache.
LoanStatements ==
    {StmtShowTables}
    \cup {StmtCreateTable(t) : t \in Tables}
    \cup {[type |-> "Describe", table |-> t] : t \in Tables}
    \cup {StmtSelect(t) : t \in Tables}
    \cup {StmtSelectFrom(<<Wildcard>>, t, <<>>, <<>>, Some(1)) : t \in Tables}
    \cup UNION {{StmtInsertInto(t, values) : values \in InsertValues} : t \in Tables}

\* The operation of a statement answered r: if it succeeded, no buffer that
\* get_block or new_block handed out is still out of the cache.
LoansReturned(r) == (r.ok /\ ~r.panic) => r.a.loans.held = {}

\* C33: when the operation of a statement completes successfully, every
\* block it took out of the cache with get_block has been put back.
C33_LoansReturned ==
    ~panicked => \A stmt \in LoanStatements : LoansReturned(dispatch(Self, stmt))

\* C34: between statements, when no transaction is in progress, no block and
\* no schema is marked dirty and the superblock is not dirty.
C34_IdleClean ==
    (~panicked /\ ~transaction_in_progress)
        => /\ blocks_dirty = {}
           /\ schemas_dirty = {}
           /\ ~superblock_dirty

\* The non-zero block indices the in-memory superblock and the cached
\* schemas point at.
Pointers ==
    ({superblock.first_schema_block, superblock.next_text_block}
        \cup {schemas[t].next_schema_block : t \in DOMAIN schemas}
        \cup {schemas[t].data_block : t \in DOMAIN schemas}
        \cup UNION {{schemas[t].indices[k].block : k \in DOMAIN schemas[t].indices} :
                    t \in DOMAIN schemas})
    \ {0}

\* C35: between statements, every non-zero block index held by the
\* in-memory superblock or by a cached schema is the index of a block in the
\* block cache or in the store.
C35_NoDanglingPointers ==
    ~panicked => Pointers \subseteq (DOMAIN blocks) \cup (DOMAIN op)

\* The statements that only read.
ReadOnlyStatements ==
    {StmtShowTables}
    \cup {[type |-> "Describe", table |-> t] : t \in Tables}
    \cup {StmtSelect(t) : t \in Tables}
    \cup {StmtExplain(StmtSelect(t)) : t \in Tables}

\* The operation of a read-only statement answered r on the core a: the
\* dirty marks, the superblock, the store and the write log are as before.
NothingMarked(a, r) ==
    /\ r.a.blocks_dirty = a.blocks_dirty
    /\ r.a.schemas_dirty = a.schemas_dirty
    /\ r.a.superblock_dirty = a.superblock_dirty
    /\ r.a.superblock = a.superblock
    /\ r.a.op = a.op
    /\ r.a.log.written = a.log.written

\* The cached schemas of a that are marked dirty are cached in r.a with the
\* same content.
UnsavedKept(a, r) ==
    \A t \in a.schemas_dirty \cap DOMAIN a.schemas :
        t \in DOMAIN r.a.schemas /\ r.a.schemas[t] = a.schemas[t]

\* C36: the operation of SELECT, EXPLAIN, SHOW TABLES and DESCRIBE marks
\* nothing dirty, leaves the superblock and the store as they are and writes
\* nothing physically, and leaves the content of every cached schema with
\* unsaved modifications as it is.
C36_ReadOnlyPure ==
    ~panicked
        => \A stmt \in ReadOnlyStatements :
              /\ ~dispatch(Self, stmt).panic
              /\ NothingMarked(Self, dispatch(Self, stmt))
              /\ dispatch(Self, stmt).ok => UnsavedKept(Self, dispatch(Self, stmt))

\* The block index holds in the core a: the cached buffer, else the stored
\* one, else a zeroed one.
BlockIn(a, index) ==
    IF index \in DOMAIN a.blocks THEN a.blocks[index]
    ELSE IF index \in DOMAIN a.op THEN a.op[index]
    ELSE ZeroBlock

\* The data blocks of the chain that starts at index, at most fuel of them.
RECURSIVE DataChain(_, _, _)
DataChain(a, index, fuel) ==
    IF index = 0 \/ fuel = 0 THEN {}
    ELSE {index} \cup DataChain(a, DataRead(BlockIn(a, index)).next_data_block, fuel - 1)

\* The valid row slots of the table with the schema `schema`, each as the
\* index entry it is to have: the value of the indexed column and the
\* DataPointer of the slot.
SlotEntries(a, schema, column_index) ==
    UNION {{[key |-> DataRead(BlockIn(a, index)).slots[pos].values[column_index + 1].v,
             record |-> [block |-> index, offset |-> pos]] :
               pos \in {p \in DOMAIN DataRead(BlockIn(a, index)).slots :
                           is_row_valid(DataRead(BlockIn(a, index)), p)}} :
           index \in DataChain(a, schema.data_block, a.superblock.next_empty_block)}

\* The leaves under the root block root_i, and their records.
IndexLeaves(a, root_i) ==
    IF root_i = 0 THEN {}
    ELSE UNION {{c.child : c \in Range(NodeRead(BlockIn(a, n.child)))} :
                n \in Range(NodeRead(BlockIn(a, root_i)))}

IndexEntries(a, root_i) ==
    UNION {Range(LeafRead(BlockIn(a, l)).records) : l \in IndexLeaves(a, root_i)}

\* The number of records in the leaves under root.
RECURSIVE CountRecords(_, _)
CountRecords(a, leaves) ==
    IF leaves = {} THEN 0
    ELSE Len(LeafRead(BlockIn(a, Pick(leaves))).records)
             + CountRecords(a, leaves \ {Pick(leaves)})

\* Every indexed value of a valid slot is an integer.
SlotsKeyed(a, schema, column_index) ==
    \A index \in DataChain(a, schema.data_block, a.superblock.next_empty_block) :
        \A pos \in DOMAIN DataRead(BlockIn(a, index)).slots :
            is_row_valid(DataRead(BlockIn(a, index)), pos)
                => DataRead(BlockIn(a, index)).slots[pos].values[column_index + 1].tag
                       = "Integer"

\* The index `info` of the table with the schema `schema` holds one entry
\* for each valid slot and no other.
IndexMatches(a, schema, info) ==
    /\ SlotsKeyed(a, schema, info.column_index)
    /\ IndexEntries(a, info.block) = SlotEntries(a, schema, info.column_index)
    /\ CountRecords(a, IndexLeaves(a, info.block))
           = Cardinality(SlotEntries(a, schema, info.column_index))

\* The schema of table a as the core g.a holds it, when it has the table.
Consistent(g) ==
    g.ok => \A k \in DOMAIN g.v.indices : IndexMatches(g.a, g.v, g.v.indices[k])

\* INSERT INTO a VALUES (NULL), answered with r: rejected, and the table and
\* its index agree afterwards.
NullRejected(r) ==
    /\ ~r.ok
    /\ ~r.panic
    /\ r.v \in {"indexed column must be non-null", "table not found"}
    /\ Consistent(get_schema(r.a, "a"))

\* C37: between statements, the B+tree index of table a holds exactly one
\* entry for each valid row slot, with the row's indexed value as key and
\* the slot as DataPointer, and no other entry; an INSERT with NULL for the
\* indexed column is rejected and leaves the table and the index so.
C37_IndexDataConsistency ==
    ~panicked
        => /\ Consistent(get_schema(Self, "a"))
           /\ get_schema(Self, "a").ok
                  => NullRejected(query(Self, StmtInsertInto("a", <<<<Null>>>>)))

\* Table a holds rows in more than one data block and its index has more
\* than one leaf, after an INSERT inside a transaction.
C37_Witness ==
    /\ last.type = "InsertInto"
    /\ last.table = "a"
    /\ last.ok
    /\ last.in_txn
    /\ get_schema(Self, "a").ok
    /\ Cardinality(IndexLeaves(Self, get_schema(Self, "a").v.indices[1].block)) > 1
    /\ Cardinality(DataChain(Self, get_schema(Self, "a").v.data_block, 10)) > 1
    /\ Cardinality(SlotEntries(Self, get_schema(Self, "a").v, 0)) > 5

\* C38: a row of a table of up to 255 columns that write_row has written has
\* a leading length byte that is positive and equal to the number of its
\* columns, and its slot is read as a valid row.
C38_RowLength ==
    /\ (last.type = "write_row" /\ last.ok)
           => (last.v > 0 /\ last.v = Len(stored["a"][1]))
    /\ last.type = "is_row_valid" => last.v

====
